---- MODULE Spec2Model ----
(***************************************************************************)
(* ChurnInsight: the staged tabular pipeline (contract loading and         *)
(* enforcement, categorical standardization, missing-value imputation,     *)
(* train/test split, supervised representation, target audit), and the    *)
(* inference service that serves the trained model (model_loader, main,   *)
(* predictor).                                                             *)
(*                                                                         *)
(* Every stage is a synchronous function call.  A state of the model is    *)
(* the last call that was made (`call`: the operation and its arguments)   *)
(* and what it returned or raised (`ret`).  One action per public          *)
(* function; the arguments are drawn from bounded sets.  The supervised    *)
(* representation is modelled statement by statement (`ret.pc`), so that   *)
(* the order of fit and transform is a property of its runs.  `prev`       *)
(* keeps the first of two runs that are compared, and `np_draws` counts    *)
(* the draws taken from numpy's global random state.                       *)
(*                                                                         *)
(* Encoding of Python values:                                              *)
(*   - a table (DataFrame) is a sequence of columns [name, dtype, cells],  *)
(*     column names are unique, non-empty strings;                         *)
(*   - a cell is a record [k, s, n]: k = "null" (NaN/None), "str", "num",  *)
(*     "bool";                                                             *)
(*   - text that the code strips / lowercases / splits is a sequence of    *)
(*     one-character strings, so that the conversions are computed;        *)
(*   - a key that a dict does not hold is the value Absent.                *)
(***************************************************************************)
EXTENDS Integers, Sequences, FiniteSets, TLC

VARIABLES call, ret, prev, np_draws, heap, _model, joblib_loads, app_started

vars == <<call, ret, prev, np_draws, heap, _model, joblib_loads, app_started>>

-----------------------------------------------------------------------------
(* Generic helpers                                                         *)

Range(s) == {s[i] : i \in DOMAIN s}

IsIn(x, s) == \E i \in DOMAIN s : s[i] = x

SeqsUpTo(S, n) == UNION {[1..k -> S] : k \in 0..n}

NoDup(s) == \A i, j \in DOMAIN s : i # j => s[i] # s[j]

RECURSIVE Filter(_, _)
\* [x for x in s if Keep[x]], Keep a function to BOOLEAN on the elements of s
Filter(s, Keep) ==
  IF s = <<>> THEN <<>>
  ELSE LET h == Head(s)
           r == Filter(Tail(s), Keep)
       IN IF Keep[h] THEN <<h>> \o r ELSE r

\* position of a name in Python's str ordering (upper case before lower case)
NameOrder == <<"Churn", "a", "b", "c", "contract", "gone", "tenure", "z">>

NameRank(n) == CHOOSE i \in DOMAIN NameOrder : NameOrder[i] = n

RECURSIVE InsertSorted(_, _)
InsertSorted(x, s) ==
  IF s = <<>> THEN <<x>>
  ELSE IF NameRank(x) <= NameRank(Head(s)) THEN <<x>> \o s
       ELSE <<Head(s)>> \o InsertSorted(x, Tail(s))

RECURSIVE Sorted(_)
\* sorted(list of column names)
Sorted(s) == IF s = <<>> THEN <<>> ELSE InsertSorted(Head(s), Sorted(Tail(s)))

\* prev: the call made before `call` and what it returned (none at first);
\* np_draws: how many draws were taken from numpy's global random generator
\* heap: the tables alive in a pipeline run, by object identity
\* _model: the model singleton of the inference service (None until loaded)
\* joblib_loads: how many times the model file was read from disk
\* app_started: the inference service has run its startup event
Init ==
  /\ call = [op |-> "none"]
  /\ ret = [ok |-> TRUE]
  /\ prev = [op |-> "none"]
  /\ np_draws = 0
  /\ heap = <<>>
  /\ _model = [t |-> "None"]
  /\ joblib_loads = 0
  /\ app_started = FALSE

-----------------------------------------------------------------------------
(* Tables                                                                  *)

Columns(df) == [i \in DOMAIN df |-> df[i].name]

HasColumn(df, c) == \E i \in DOMAIN df : df[i].name = c

Col(df, c) == df[CHOOSE i \in DOMAIN df : df[i].name = c]

\* df.loc[:, names]: the named columns, in the order asked for
Loc(df, names) == [i \in DOMAIN names |-> Col(df, names[i])]

\* rows and columns of a table (memory_bytes, a platform figure, is left out)
CaptureStructuralSnapshot(df) ==
  [n_rows |-> IF df = <<>> THEN 0 ELSE Len(df[1].cells), n_cols |-> Len(df)]

BuildBeforeAfterTable(before, after) ==
  <<[metric |-> "Linhas", before |-> before.n_rows, after |-> after.n_rows,
     delta |-> after.n_rows - before.n_rows],
    [metric |-> "Colunas", before |-> before.n_cols, after |-> after.n_cols,
     delta |-> after.n_cols - before.n_cols]>>

-----------------------------------------------------------------------------
(* Contract enforcement: enforce_contract_columns                          *)

MaxExpected == 3

EnforceNames == {"a", "b", "Churn"}

EnforceCells == {[k |-> "str", v |-> <<"p">>], [k |-> "str", v |-> <<"q">>]}

\* one-row tables over every ordering of every subset of EnforceNames
EnforceTables ==
  {df \in SeqsUpTo([name : EnforceNames, dtype : {"object"},
                    cells : [1..1 -> EnforceCells]], Cardinality(EnforceNames)) :
     NoDup(Columns(df))}

\* an entry of contract_columns: a str, or something that is not a str
ExpectedItems ==
  [str : {TRUE}, v : EnforceNames \cup {"z"}] \cup {[str |-> FALSE, v |-> "z"]}

\* the contract_columns argument: a list, or something that is not a list
ExpectedArgs ==
  [list : {TRUE}, items : SeqsUpTo(ExpectedItems, MaxExpected)]
    \cup {[list |-> FALSE, items |-> <<>>]}

\* mutant: kept follows the table's column order instead of the contract's
EnforceContractColumns_TableOrder(df, contract_columns, strict) ==
  IF ~contract_columns.list \/ \E i \in DOMAIN contract_columns.items : ~contract_columns.items[i].str
  THEN [ok |-> FALSE, error |-> "TypeError"]
  ELSE
    LET names == [i \in DOMAIN contract_columns.items |-> contract_columns.items[i].v]
        missing == Filter(names, [c \in Range(names) |-> ~HasColumn(df, c)])
    IN IF strict /\ missing # <<>>
       THEN [ok |-> FALSE, error |-> "ValueError"]
       ELSE
         LET kept == Filter(Columns(df), [c \in Range(Columns(df)) |-> IsIn(c, names)])
             dropped == Sorted(Filter(Columns(df), [c \in Range(Columns(df)) |-> ~IsIn(c, kept)]))
         IN [ok |-> TRUE,
             df |-> Loc(df, kept),
             kept_columns |-> kept,
             missing_contract_columns |-> missing,
             dropped_columns |-> dropped,
             snapshot_before |-> CaptureStructuralSnapshot(df),
             snapshot_after |-> CaptureStructuralSnapshot(Loc(df, kept))]

EnforceContractColumns(df, contract_columns, strict) ==
  IF ~contract_columns.list \/ \E i \in DOMAIN contract_columns.items : ~contract_columns.items[i].str
  THEN [ok |-> FALSE, error |-> "TypeError"]
  ELSE
    LET names == [i \in DOMAIN contract_columns.items |-> contract_columns.items[i].v]
        missing == Filter(names, [c \in Range(names) |-> ~HasColumn(df, c)])
    IN IF strict /\ missing # <<>>
       THEN [ok |-> FALSE, error |-> "ValueError"]
       ELSE
         LET kept == Filter(names, [c \in Range(names) |-> HasColumn(df, c)])
             dropped == Sorted(Filter(Columns(df), [c \in Range(Columns(df)) |-> ~IsIn(c, kept)]))
         IN [ok |-> TRUE,
             df |-> Loc(df, kept),
             kept_columns |-> kept,
             missing_contract_columns |-> missing,
             dropped_columns |-> dropped,
             snapshot_before |-> CaptureStructuralSnapshot(df),
             snapshot_after |-> CaptureStructuralSnapshot(Loc(df, kept))]

\* a call is made from the idle state; the state after it is the finished call
Idle == call.op = "none"

EnforceCall ==
  /\ Idle
  /\ \E df \in EnforceTables, cc \in ExpectedArgs, strict \in BOOLEAN :
    /\ call' = [op |-> "enforce", df |-> df, contract_columns |-> cc, strict |-> strict]
    /\ ret' = EnforceContractColumns(df, cc, strict)
  /\ UNCHANGED <<prev, np_draws, heap, _model, joblib_loads, app_started>>

NextEnforce == EnforceCall

SpecEnforce == Init /\ [][NextEnforce]_vars

\* C1: on every successful enforce_contract_columns(T, E): kept is E filtered to
\* the columns of T (E's order), missing is E filtered to the names that are not
\* columns of T, dropped holds exactly the columns of T that are not in E, and
\* the returned table is the kept columns of T, in that order, with T's cells.
C1_EnforceContract ==
  (call.op = "enforce" /\ ret.ok) =>
    LET E == [i \in DOMAIN call.contract_columns.items |-> call.contract_columns.items[i].v]
        T == call.df
    IN /\ ret.kept_columns = Filter(E, [c \in Range(E) |-> HasColumn(T, c)])
       /\ ret.missing_contract_columns = Filter(E, [c \in Range(E) |-> ~HasColumn(T, c)])
       /\ Range(ret.dropped_columns) = Range(Columns(T)) \ Range(E)
       /\ Len(ret.dropped_columns) = Cardinality(Range(Columns(T)) \ Range(E))
       /\ Columns(ret.df) = ret.kept_columns
       /\ \A i \in DOMAIN ret.df : ret.df[i] = Col(T, ret.kept_columns[i])

\* a call where E repeats a column, names an absent one and leaves one of T out
C1_Witness ==
  /\ call.op = "enforce" /\ ret.ok
  /\ ret.kept_columns = <<"b", "b">>
  /\ ret.missing_contract_columns = <<"z">>
  /\ ret.dropped_columns = <<"Churn", "a">>
  /\ Columns(call.df) = <<"a", "Churn", "b">>

-----------------------------------------------------------------------------
(* Text: str.strip()                                                       *)

White == {" "}

RECURSIVE LStrip(_)
LStrip(s) == IF s # <<>> /\ Head(s) \in White THEN LStrip(Tail(s)) ELSE s

RECURSIVE RStrip(_)
RStrip(s) ==
  IF s # <<>> /\ s[Len(s)] \in White THEN RStrip(SubSeq(s, 1, Len(s) - 1)) ELSE s

Strip(s) == RStrip(LStrip(s))

-----------------------------------------------------------------------------
(* Contract loader: load_contract_yaml, ContractConfig.to_scope,           *)
(* NormalizationScope, _scope_from_contract_columns                        *)

MaxList == 2

\* values yaml.safe_load can hand over for a key
\* (s: the characters of a str or the digit of an int; l: the items of a list)
YAbsent == [t |-> "absent", s |-> <<>>, l |-> <<>>]
YNull == [t |-> "null", s |-> <<>>, l |-> <<>>]
\* an int is held by its decimal digit, as text
YInt(d) == [t |-> "int", s |-> <<d>>, l |-> <<>>]
YStr(chars) == [t |-> "str", s |-> chars, l |-> <<>>]
YList(items) == [t |-> "list", s |-> <<>>, l |-> items]

Digits == <<"0", "1", "2", "3", "4", "5", "6", "7", "8", "9">>

DigitValue(d) == (CHOOSE i \in DOMAIN Digits : Digits[i] = d) - 1

Ok(v) == [ok |-> TRUE, v |-> v]
Err(e) == [ok |-> FALSE, error |-> e]

\* dict.get(key): an absent key reads as None
Get(y) == IF y.t = "absent" THEN YNull ELSE y

\* dict.get(key, []): an absent key reads as the empty list
GetOrEmptyList(y) == IF y.t = "absent" THEN YList(<<>>) ELSE y

AsStr(value) ==
  IF value.t = "null" THEN Err("ValueError")
  ELSE IF value.t # "str" \/ Strip(value.s) = <<>> THEN Err("TypeError")
  ELSE Ok(Strip(value.s))

AsInt(value, default) ==
  IF value.t = "null" THEN Ok(default)
  ELSE IF value.t = "int" THEN Ok(DigitValue(value.s[1]))
  ELSE Err("TypeError")

AsListStr(value, allow_empty) ==
  IF value.t = "null" THEN (IF allow_empty THEN Ok(<<>>) ELSE Err("ValueError"))
  ELSE IF value.t # "list" THEN Err("TypeError")
  ELSE IF \E i \in DOMAIN value.l : value.l[i].t # "str" \/ Strip(value.l[i].s) = <<>>
       THEN Err("TypeError")
  ELSE IF ~allow_empty /\ Len(value.l) = 0 THEN Err("ValueError")
  ELSE Ok([i \in DOMAIN value.l |-> Strip(value.l[i].s)])

RECURSIVE DedupeFrom(_, _)
DedupeFrom(items, seen) ==
  IF items = <<>> THEN <<>>
  ELSE IF Head(items) \in seen THEN DedupeFrom(Tail(items), seen)
       ELSE <<Head(items)>> \o DedupeFrom(Tail(items), seen \cup {Head(items)})

\* mutant: the sanitation step is skipped, repeated entries stay
DedupePreserveOrder_Skipped(items) == items

DedupePreserveOrder(items) == DedupeFrom(items, {})

\* the frozen dataclass: no __post_init__, nothing is validated
NormalizationScope(features, target) == [features |-> features, target |-> target]

\* mutant: the loader without its target-in-features sanity check
LoadContractYaml_NoOverlapCheck(doc) ==
  IF ~doc.exists THEN Err("FileNotFoundError")
  ELSE IF doc.root = "other" THEN Err("TypeError")
  ELSE
    LET data == IF doc.root = "empty"
                THEN [version |-> YAbsent, name |-> YAbsent, schema |-> "absent",
                      target |-> YAbsent, features |-> YAbsent,
                      id_columns |-> YAbsent, drop_columns |-> YAbsent]
                ELSE doc
        version == AsInt(Get(data.version), 1)
        name == AsStr(IF data.name.t = "absent" THEN YStr(<<"s">>) ELSE data.name)
        target == AsStr(Get(data.target))
        features == AsListStr(Get(data.features), FALSE)
        id_columns == AsListStr(GetOrEmptyList(data.id_columns), TRUE)
        drop_columns == AsListStr(GetOrEmptyList(data.drop_columns), TRUE)
    IN IF ~version.ok THEN version
       ELSE IF ~name.ok THEN name
       ELSE IF data.schema = "other" THEN Err("TypeError")
       ELSE IF ~target.ok THEN target
       ELSE IF ~features.ok THEN features
       ELSE IF ~id_columns.ok THEN id_columns
       ELSE IF ~drop_columns.ok THEN drop_columns
       ELSE Ok([name |-> name.v, version |-> version.v,
                features |-> DedupePreserveOrder(features.v),
                target |-> target.v,
                id_columns |-> DedupePreserveOrder(id_columns.v),
                drop_columns |-> DedupePreserveOrder(drop_columns.v)])

\* doc: whether the file exists, the kind of its root object and of its
\* `schema` key ("dict", "absent", "other"), and the values under the keys
LoadContractYaml(doc) ==
  IF ~doc.exists THEN Err("FileNotFoundError")
  ELSE IF doc.root = "other" THEN Err("TypeError")
  ELSE
    LET data == IF doc.root = "empty"
                THEN [version |-> YAbsent, name |-> YAbsent, schema |-> "absent",
                      target |-> YAbsent, features |-> YAbsent,
                      id_columns |-> YAbsent, drop_columns |-> YAbsent]
                ELSE doc
        version == AsInt(Get(data.version), 1)
        name == AsStr(IF data.name.t = "absent" THEN YStr(<<"s">>) ELSE data.name)
        target == AsStr(Get(data.target))
        features == AsListStr(Get(data.features), FALSE)
        id_columns == AsListStr(GetOrEmptyList(data.id_columns), TRUE)
        drop_columns == AsListStr(GetOrEmptyList(data.drop_columns), TRUE)
    IN IF ~version.ok THEN version
       ELSE IF ~name.ok THEN name
       ELSE IF data.schema = "other" THEN Err("TypeError")
       ELSE IF ~target.ok THEN target
       ELSE IF ~features.ok THEN features
       ELSE IF ~id_columns.ok THEN id_columns
       ELSE IF ~drop_columns.ok THEN drop_columns
       ELSE IF IsIn(target.v, DedupePreserveOrder(features.v)) THEN Err("ValueError")
       ELSE Ok([name |-> name.v, version |-> version.v,
                features |-> DedupePreserveOrder(features.v),
                target |-> target.v,
                id_columns |-> DedupePreserveOrder(id_columns.v),
                drop_columns |-> DedupePreserveOrder(drop_columns.v)])

ToScope(config) == NormalizationScope(config.features, config.target)

\* None is [none |-> TRUE]
ScopeFromContractColumns(contract_columns) ==
  LET strs == Filter(contract_columns, [c \in Range(contract_columns) |-> c.str])
      cols == [i \in DOMAIN strs |-> strs[i].v]
  IN IF IsIn("Churn", cols) /\ Len(cols) >= 2
     THEN [none |-> FALSE,
           scope |-> NormalizationScope(Filter(cols, [c \in Range(cols) |-> c # "Churn"]), "Churn")]
     ELSE [none |-> TRUE]

\* --- inputs of the loader ---------------------------------------------------

LoaderTargets ==
  {YAbsent, YNull, YInt("7"), YStr(<<" ">>), YStr(<<"t">>), YStr(<<" ", "t">>)}

FeatureItems ==
  {YInt("7"), YStr(<<" ">>), YStr(<<"a">>), YStr(<<" ", "a">>), YStr(<<"t">>)}

LoaderFeatures ==
  {YAbsent, YNull, YStr(<<"a">>)} \cup {YList(l) : l \in SeqsUpTo(FeatureItems, MaxList)}

IdItems == {YInt("7"), YStr(<<" ">>), YStr(<<"i">>), YStr(<<"i", " ">>)}

LoaderIds ==
  {YAbsent, YNull, YStr(<<"i">>)} \cup {YList(l) : l \in SeqsUpTo(IdItems, MaxList)}

LoaderDrops ==
  {YAbsent, YNull, YInt("7"), YList(<<>>), YList(<<YStr(<<"d">>)>>),
   YList(<<YStr(<<"d">>), YStr(<<"d">>)>>), YList(<<YInt("7")>>)}

\* documents with a schema object: every combination of its four fields
SchemaDocs ==
  [exists : {TRUE}, root : {"dict"}, version : {YAbsent}, name : {YAbsent},
   schema : {"dict"}, target : LoaderTargets, features : LoaderFeatures,
   id_columns : LoaderIds, drop_columns : LoaderDrops]

\* a well-formed schema under every name/version, and the documents that are
\* missing, empty, not a mapping, or whose `schema` is absent or not a mapping
HeaderDocs ==
  [exists : BOOLEAN, root : {"dict", "empty", "other"},
   version : {YAbsent, YNull, YInt("2"), YStr(<<"x">>)},
   name : {YAbsent, YNull, YStr(<<" ", "n">>), YStr(<<" ">>)},
   schema : {"dict"}, target : {YStr(<<"t">>)},
   features : {YList(<<YStr(<<"a">>)>>)},
   id_columns : {YAbsent}, drop_columns : {YAbsent}]
  \cup
  [exists : {TRUE}, root : {"dict"}, version : {YAbsent}, name : {YAbsent},
   schema : {"absent", "other"}, target : {YAbsent}, features : {YAbsent},
   id_columns : {YAbsent}, drop_columns : {YAbsent}]

LoaderDocs == SchemaDocs \cup HeaderDocs

ScopeNames == {"a", "b", "Churn"}

ShimItems == [str : {TRUE}, v : ScopeNames] \cup {[str |-> FALSE, v |-> "z"]}

\* --- actions -----------------------------------------------------------------

\* load_contract_yaml(path)
LoadCall ==
  /\ Idle
  /\ \E doc \in LoaderDocs :
       /\ call' = [op |-> "load", doc |-> doc]
       /\ ret' = LoadContractYaml(doc)
  /\ UNCHANGED <<prev, np_draws, heap, _model, joblib_loads, app_started>>

\* cfg.to_scope() on the config a load returned
ToScopeCall ==
  /\ call.op = "load" /\ ret.ok
  /\ call' = [op |-> "to_scope", config |-> ret.v, doc |-> call.doc]
  /\ ret' = Ok(ToScope(ret.v))
  /\ UNCHANGED <<prev, np_draws, heap, _model, joblib_loads, app_started>>

\* NormalizationScope(features=..., target=...) written by a caller
ScopeCall ==
  /\ Idle
  /\ \E features \in SeqsUpTo(ScopeNames, MaxList), target \in ScopeNames :
       /\ call' = [op |-> "scope", features |-> features, target |-> target]
       /\ ret' = Ok(NormalizationScope(features, target))
  /\ UNCHANGED <<prev, np_draws, heap, _model, joblib_loads, app_started>>

\* _scope_from_contract_columns(contract_columns), the legacy mode
ShimCall ==
  /\ Idle
  /\ \E cc \in SeqsUpTo(ShimItems, MaxExpected) :
       /\ call' = [op |-> "shim", contract_columns |-> cc]
       /\ ret' = LET r == ScopeFromContractColumns(cc)
                 IN IF r.none THEN [ok |-> TRUE, none |-> TRUE]
                    ELSE [ok |-> TRUE, none |-> FALSE, v |-> r.scope]
  /\ UNCHANGED <<prev, np_draws, heap, _model, joblib_loads, app_started>>

NextContract == LoadCall \/ ToScopeCall \/ ScopeCall \/ ShimCall

SpecContract == Init /\ [][NextContract]_vars

\* --- C2 ------------------------------------------------------------------------

\* the state holds a Scope that was just constructed
HoldsScope ==
  \/ call.op \in {"scope", "to_scope"} /\ ret.ok
  \/ call.op = "shim" /\ ~ret.none

\* C2 as claimed: every Scope that exists, however it was constructed, has
\* its target outside its features.
C2_TargetNeverInFeatures == HoldsScope => ~IsIn(ret.v.target, ret.v.features)

\* C2, amended: every Scope obtained from load_contract_yaml + to_scope or from
\* the legacy contract_columns shim has its target outside its features, and
\* load_contract_yaml fails when the (stripped) target is one of the (stripped)
\* features.  A NormalizationScope written directly is not validated.
C2_ContractScopes ==
  /\ (HoldsScope /\ call.op \in {"to_scope", "shim"}) =>
        ~IsIn(ret.v.target, ret.v.features)
  /\ (call.op = "load" /\ call.doc.root = "dict" /\ call.doc.schema = "dict"
      /\ call.doc.target.t = "str" /\ call.doc.features.t = "list"
      /\ \E i \in DOMAIN call.doc.features.l :
            /\ call.doc.features.l[i].t = "str"
            /\ Strip(call.doc.features.l[i].s) = Strip(call.doc.target.s))
     => ~ret.ok

\* a scope from a loaded contract whose features come after a target-free check
C2_Witness ==
  /\ call.op = "to_scope"
  /\ call.doc.target = YStr(<<" ", "t">>)
  /\ ret.v = [features |-> <<<<"a">>>>, target |-> <<"t">>]

\* --- C3 ------------------------------------------------------------------------

\* a load whose file, root, name, version and schema object are in order, so
\* that the outcome is decided by the four schema fields
SchemaDecides ==
  /\ call.op = "load"
  /\ call.doc \in SchemaDocs

FirstIndex(x, s) == CHOOSE i \in DOMAIN s : s[i] = x /\ \A j \in 1..(i - 1) : s[j] # x

\* out is s without its repeated entries, in the order of first occurrence
IsFirstOccurrenceDedup(out, s) ==
  /\ NoDup(out)
  /\ Range(out) = Range(s)
  /\ \A i, j \in DOMAIN out : i < j => FirstIndex(out[i], s) < FirstIndex(out[j], s)

Blank(y) == y.t = "str" /\ Strip(y.s) = <<>>

\* a value that is a list whose entries are all non-blank strings
IsListOfNames(y) ==
  y.t = "list" /\ \A i \in DOMAIN y.l : y.l[i].t = "str" /\ ~Blank(y.l[i])

Declared(y) == [i \in DOMAIN y.l |-> y.l[i].s]

Stripped(y) == [i \in DOMAIN y.l |-> Strip(y.l[i].s)]

\* C3 as claimed: the load fails on every violated rule (an id_columns or
\* drop_columns key that is present without holding a list of non-empty strings
\* included), and on success target, features, id_columns and drop_columns are
\* the declared values, only deduplicated in first-occurrence order.
C3_NeverRepairs ==
  SchemaDecides =>
    LET d == call.doc
    IN /\ ( \/ d.target.t # "str" \/ Blank(d.target)
            \/ ~IsListOfNames(d.features) \/ d.features.l = <<>>
            \/ IsIn(d.target, d.features.l)
            \/ (d.id_columns.t # "absent" /\ ~IsListOfNames(d.id_columns))
            \/ (d.drop_columns.t # "absent" /\ ~IsListOfNames(d.drop_columns)) )
          => ~ret.ok
       /\ ret.ok =>
            /\ ret.v.target = d.target.s
            /\ IsFirstOccurrenceDedup(ret.v.features, Declared(d.features))
            /\ IsFirstOccurrenceDedup(ret.v.id_columns, Declared(d.id_columns))
            /\ IsFirstOccurrenceDedup(ret.v.drop_columns, Declared(d.drop_columns))

\* C3, amended: the load fails when target is absent, null, not a string or
\* blank; when features is absent, null, not a list, empty or holds a non-string
\* or blank entry; when the stripped target equals a stripped feature; when
\* id_columns or drop_columns holds something other than null or a list of
\* non-blank strings.  On success target is the declared target stripped of
\* surrounding whitespace, and features, id_columns and drop_columns are the
\* declared entries, each stripped, then deduplicated in first-occurrence
\* order; an id_columns or drop_columns that is absent or null is returned as
\* the empty list.
C3_LoaderValidation ==
  SchemaDecides =>
    LET d == call.doc
        optionalOk(y) == y.t \in {"absent", "null"} \/ IsListOfNames(y)
    IN /\ ( \/ d.target.t # "str" \/ Blank(d.target)
            \/ ~IsListOfNames(d.features) \/ d.features.l = <<>>
            \/ IsIn(Strip(d.target.s), Stripped(d.features))
            \/ ~optionalOk(d.id_columns)
            \/ ~optionalOk(d.drop_columns) )
          => ~ret.ok
       /\ ret.ok =>
            /\ ret.v.target = Strip(d.target.s)
            /\ IsFirstOccurrenceDedup(ret.v.features, Stripped(d.features))
            /\ IsFirstOccurrenceDedup(ret.v.id_columns, Stripped(d.id_columns))
            /\ IsFirstOccurrenceDedup(ret.v.drop_columns, Stripped(d.drop_columns))

\* a successful load that stripped, deduplicated and took null for no list
C3_Witness ==
  /\ SchemaDecides /\ ret.ok
  /\ call.doc.features = YList(<<YStr(<<"a">>), YStr(<<" ", "a">>)>>)
  /\ call.doc.id_columns = YNull
  /\ call.doc.drop_columns = YList(<<YStr(<<"d">>), YStr(<<"d">>)>>)
  /\ ret.v.features = << <<"a">> >>
  /\ ret.v.id_columns = <<>>
  /\ ret.v.drop_columns = << <<"d">> >>

-----------------------------------------------------------------------------
(* Cells and text normalization                                            *)

\* (s: the characters of a str cell; n: the value of a numeric cell)
Null == [k |-> "null", s |-> <<>>, n |-> <<>>]
StrCell(chars) == [k |-> "str", s |-> chars, n |-> <<>>]
IntCell(i) == [k |-> "num", s |-> <<>>, n |-> <<i, 1>>]

IsNa(x) == x.k = "null"

\* str.lower() on the characters the model uses
LowerChar(c) ==
  CASE c = "N" -> "n"
    [] c = "Y" -> "y"
    [] c = "S" -> "s"
    [] OTHER -> c

Lower(s) == [i \in DOMAIN s |-> LowerChar(s[i])]

RECURSIVE SplitFrom(_, _)
\* str.split(): the maximal runs of non-whitespace characters (word: the run
\* being read)
SplitFrom(s, word) ==
  IF s = <<>> THEN (IF word = <<>> THEN <<>> ELSE <<word>>)
  ELSE IF Head(s) \in White
       THEN (IF word = <<>> THEN <<>> ELSE <<word>>) \o SplitFrom(Tail(s), <<>>)
       ELSE SplitFrom(Tail(s), Append(word, Head(s)))

Split(s) == SplitFrom(s, <<>>)

RECURSIVE JoinSpace(_)
\* " ".join(words)
JoinSpace(words) ==
  IF words = <<>> THEN <<>>
  ELSE IF Len(words) = 1 THEN words[1]
  ELSE words[1] \o <<" ">> \o JoinSpace(Tail(words))

\* str(x) of a cell that is not null: a str is itself, an int its digit
StrOf(x) == IF x.k = "str" THEN x.s ELSE <<Digits[x.n[1] + 1]>>

NormalizeTextValue(x) ==
  IF IsNa(x) THEN x
  ELSE StrCell(JoinSpace(Split(Lower(Strip(StrOf(x))))))

-----------------------------------------------------------------------------
(* Categorical standardization: apply_service_phrase_standardization,      *)
(* run_categorical_standardization                                         *)

MaxExamples == 8

\* Series.replace(mapping): a cell equal to a key becomes that key's value
\* (mapping: the dict's items, [from, to], keys unique)
Replace(x, mapping) ==
  IF IsNa(x) THEN x
  ELSE IF \E i \in DOMAIN mapping : mapping[i].from = x.s
       THEN StrCell(mapping[CHOOSE i \in DOMAIN mapping : mapping[i].from = x.s].to)
       ELSE x

\* the mapping handed to Series.replace: the raw phrase_map, not the rules
StdReplaceMap(phrase_map, rules) == phrase_map

RECURSIVE DistinctPairs(_, _)
\* DataFrame.drop_duplicates() on the before/after pairs
DistinctPairs(pairs, seen) ==
  IF pairs = <<>> THEN <<>>
  ELSE IF Head(pairs) \in seen THEN DistinctPairs(Tail(pairs), seen)
       ELSE <<Head(pairs)>> \o DistinctPairs(Tail(pairs), seen \cup {Head(pairs)})

HeadN(s, n) == SubSeq(s, 1, IF Len(s) < n THEN Len(s) ELSE n)

RECURSIVE InsertAudit(_, _)
\* sort_values(["cells_changed", "column"], ascending=[False, True])
InsertAudit(r, rows) ==
  IF rows = <<>> THEN <<r>>
  ELSE LET h == Head(rows)
       IN IF \/ r.cells_changed > h.cells_changed
             \/ r.cells_changed = h.cells_changed /\ NameRank(r.column) <= NameRank(h.column)
          THEN <<r>> \o rows
          ELSE <<h>> \o InsertAudit(r, Tail(rows))

RECURSIVE SortAudit(_)
SortAudit(rows) ==
  IF rows = <<>> THEN <<>> ELSE InsertAudit(Head(rows), SortAudit(Tail(rows)))

RECURSIVE SumSeq(_)
SumSeq(s) == IF s = <<>> THEN 0 ELSE Head(s) + SumSeq(Tail(s))

\* features: [none |-> TRUE] for None, else [none |-> FALSE, v |-> list]
ApplyServicePhraseStandardization(df, phrase_map, cols_scope, features) ==
  LET cols0 == Filter(cols_scope, [c \in Range(cols_scope) |-> HasColumn(df, c)])
      cols == IF features.none THEN cols0
              ELSE Filter(cols0, [c \in Range(cols0) |-> IsIn(c, features.v)])
      rules == [i \in DOMAIN phrase_map |->
                  [from |-> Lower(Strip(phrase_map[i].from)),
                   to |-> Lower(Strip(phrase_map[i].to))]]
      \* the loop body for one column, on the table as the loop left it
      normalized(col) == [r \in DOMAIN col.cells |-> NormalizeTextValue(col.cells[r])]
      replaced(col) == [r \in DOMAIN col.cells |->
                          Replace(normalized(col)[r], StdReplaceMap(phrase_map, rules))]
      changedRows(col) == {r \in DOMAIN col.cells :
                             /\ normalized(col)[r] # replaced(col)[r]
                             /\ ~(IsNa(normalized(col)[r]) /\ IsNa(replaced(col)[r]))}
      pairsOf(col) ==
        LET RECURSIVE From(_)
            From(r) == IF r > Len(col.cells) THEN <<>>
                       ELSE (IF r \in changedRows(col)
                             THEN <<[before |-> normalized(col)[r], after |-> replaced(col)[r]]>>
                             ELSE <<>>) \o From(r + 1)
        IN From(1)
      RECURSIVE Loop(_, _, _)
      Loop(i, d, audit) ==
        IF i > Len(cols) THEN [df |-> d, audit |-> audit]
        ELSE LET c == cols[i]
                 col == Col(d, c)
                 row == [column |-> c, rule_type |-> "service_phrase_map",
                         cells_changed |-> Cardinality(changedRows(col)),
                         examples |-> HeadN(DistinctPairs(pairsOf(col), {}), MaxExamples)]
                 d2 == [j \in DOMAIN d |->
                          IF d[j].name = c
                          THEN [name |-> c, dtype |-> "object", cells |-> replaced(col)]
                          ELSE d[j]]
             IN Loop(i + 1, d2, Append(audit, row))
      out == Loop(1, df, <<>>)
  IN [ok |-> TRUE,
      df |-> out.df,
      impact |-> BuildBeforeAfterTable(CaptureStructuralSnapshot(df),
                                       CaptureStructuralSnapshot(out.df)),
      changes |-> SortAudit(out.audit),
      rules |-> rules,
      meta |-> [scoped_cols_considered |-> cols,
                total_cells_changed |->
                  SumSeq([i \in DOMAIN out.audit |-> out.audit[i].cells_changed]),
                rules_count |-> Len(rules)]]

\* scope: [none |-> TRUE] for None, else [none |-> FALSE, v |-> NormalizationScope]
RunCategoricalStandardization(df, scope, phrase_map, cols_scope) ==
  LET features == IF ~scope.none /\ scope.v.features # <<>>
                  THEN [none |-> FALSE, v |-> scope.v.features]
                  ELSE [none |-> TRUE]
      payload == ApplyServicePhraseStandardization(df, phrase_map, cols_scope, features)
  IN [ok |-> TRUE, df |-> payload.df, impact |-> payload.impact,
      changes |-> payload.changes,
      rules |-> payload.rules, meta |-> payload.meta, scope |-> scope,
      decision |-> [phrase_map |-> phrase_map, cols_scope |-> cols_scope]]

\* --- inputs of the standardizer ------------------------------------------------

MaxRows == 2

\* "no s" stands for a service phrase such as "no internet service"
ServicePhrase == <<"n", "o", " ", "s">>
ServicePhraseRaw == <<"N", "o", " ", " ", "s", " ">>
ServicePhraseTitle == <<"N", "o", " ", "S">>
No == <<"N", "o">>
no == <<"n", "o">>

\* column a: candidate for standardization; column b: a feature that the
\* diagnosis did not always select; Churn: the target
StdCellsOf(name) ==
  CASE name = "a" -> {Null, StrCell(ServicePhrase), StrCell(ServicePhraseRaw), IntCell(1)}
    [] name = "b" -> {StrCell(ServicePhraseRaw)}
    [] name = "Churn" -> {Null, StrCell(No)}

StdTables ==
  UNION {
    {<<[name |-> "a", dtype |-> "object", cells |-> ca],
       [name |-> "b", dtype |-> "object", cells |-> cb],
       [name |-> "Churn", dtype |-> "object", cells |-> ct]>> :
       ca \in [1..n -> StdCellsOf("a")], cb \in [1..n -> StdCellsOf("b")],
       ct \in [1..n -> StdCellsOf("Churn")]} : n \in 0..MaxRows}

PhraseMaps ==
  {<<>>,
   <<[from |-> ServicePhrase, to |-> no]>>,
   <<[from |-> ServicePhrase, to |-> No]>>,
   <<[from |-> ServicePhraseTitle, to |-> No]>>,
   <<[from |-> ServicePhraseRaw, to |-> no], [from |-> no, to |-> ServicePhrase]>>}

ColsScopes ==
  {<<>>, <<"a">>, <<"b", "a">>, <<"a", "Churn">>, <<"Churn">>, <<"gone", "a">>}

NoScope == [none |-> TRUE]

SomeScope(features, target) == [none |-> FALSE, v |-> NormalizationScope(features, target)]

StdScopes ==
  {NoScope, SomeScope(<<"a", "b">>, "Churn"), SomeScope(<<"b">>, "Churn"),
   SomeScope(<<>>, "Churn"), SomeScope(<<"a", "Churn">>, "Churn")}

\* run_categorical_standardization(df, scope=..., phrase_map=..., cols_scope=...)
StandardizeCall ==
  /\ Idle
  /\ \E df \in StdTables, scope \in StdScopes, pm \in PhraseMaps, cs \in ColsScopes :
       /\ call' = [op |-> "standardize", df |-> df, scope |-> scope,
                   phrase_map |-> pm, cols_scope |-> cs]
       /\ ret' = RunCategoricalStandardization(df, scope, pm, cs)
  /\ UNCHANGED <<prev, np_draws, heap, _model, joblib_loads, app_started>>

NextStandardize == StandardizeCall

SpecStandardize == Init /\ [][NextStandardize]_vars

\* --- C4 ------------------------------------------------------------------------

\* C4: after every call of the standardizer, every column outside cols_scope,
\* and the target column Churn in every case, is cell for cell the column of
\* the input table.
C4_OutsideScopeAndTargetUntouched ==
  call.op = "standardize" =>
    \A i \in DOMAIN call.df :
      (~IsIn(call.df[i].name, call.cols_scope) \/ call.df[i].name = "Churn")
        => Col(ret.df, call.df[i].name).cells = call.df[i].cells

\* --- C5 ------------------------------------------------------------------------

\* the value the claim assigns to a cell v under phrase_map
C5_Expected(v, phrase_map) ==
  IF IsNa(v) THEN v
  ELSE LET n == NormalizeTextValue(v)
           hits == {i \in DOMAIN phrase_map :
                      NormalizeTextValue(StrCell(phrase_map[i].from)) = n}
       IN IF hits = {} THEN n
          ELSE NormalizeTextValue(StrCell(phrase_map[CHOOSE i \in hits : TRUE].to))

\* C5: in every in-scope column a null cell stays null and any other cell v
\* becomes the normalized value mapped to normalize(v) when normalize(v) is the
\* normalized form of a phrase_map key, and normalize(v) otherwise.
C5_NormalizedSubstitution ==
  call.op = "standardize" =>
    \A i \in DOMAIN ret.meta.scoped_cols_considered :
      LET c == ret.meta.scoped_cols_considered[i]
      IN \A r \in DOMAIN Col(call.df, c).cells :
           Col(ret.df, c).cells[r] = C5_Expected(Col(call.df, c).cells[r], call.phrase_map)

-----------------------------------------------------------------------------
(* Numbers: a numeric value is an exact fraction <<numerator, denominator>> *)

RECURSIVE GCD(_, _)
GCD(a, b) == IF b = 0 THEN a ELSE GCD(b, a % b)

Abs(x) == IF x < 0 THEN -x ELSE x

Rat(n, d) == LET g == GCD(Abs(n), d) IN <<n \div g, d \div g>>

RatLess(a, b) == a[1] * b[2] < b[1] * a[2]

RatAdd(a, b) == Rat(a[1] * b[2] + b[1] * a[2], a[2] * b[2])

NumCell(q) == [k |-> "num", s |-> <<>>, n |-> q]

\* Python's ordering of the str values the model uses
TextOrder == << <<"N", "o">>, <<"Y", "e", "s">>, <<"m">>, <<"o">>, <<"u">> >>

TextRank(t) == CHOOSE i \in DOMAIN TextOrder : TextOrder[i] = t

\* x < y for two non-null cells of one kind
CellLess(x, y) ==
  IF x.k \in {"num", "bool"} THEN RatLess(x.n, y.n) ELSE TextRank(x.s) < TextRank(y.s)

RECURSIVE InsertCell(_, _)
InsertCell(x, s) ==
  IF s = <<>> THEN <<x>>
  ELSE IF ~CellLess(Head(s), x) THEN <<x>> \o s
       ELSE <<Head(s)>> \o InsertCell(x, Tail(s))

RECURSIVE SortCells(_)
SortCells(s) == IF s = <<>> THEN <<>> ELSE InsertCell(Head(s), SortCells(Tail(s)))

\* Series.dropna()
DropNa(cells) == Filter(cells, [x \in Range(cells) |-> ~IsNa(x)])

\* Series.isna().sum()
CountNa(cells) == Cardinality({r \in DOMAIN cells : IsNa(cells[r])})

\* Series.median() of non-null numeric cells
Median(cells) ==
  LET srt == SortCells(cells)
      n == Len(srt)
  IN IF n % 2 = 1 THEN srt[(n + 1) \div 2].n
     ELSE LET q == RatAdd(srt[n \div 2].n, srt[n \div 2 + 1].n)
          IN Rat(q[1], q[2] * 2)

RECURSIVE SumRat(_)
SumRat(cells) == IF cells = <<>> THEN <<0, 1>> ELSE RatAdd(Head(cells).n, SumRat(Tail(cells)))

\* Series.mean() of non-null numeric cells
Mean(cells) == LET q == SumRat(cells) IN Rat(q[1], q[2] * Len(cells))

\* Series.mode().iloc[0]: the most frequent value, the smallest one on a tie
Mode(cells) ==
  LET count(x) == Cardinality({r \in DOMAIN cells : cells[r] = x})
      best == {x \in Range(cells) : \A y \in Range(cells) : count(y) <= count(x)}
  IN CHOOSE x \in best : \A y \in best : y = x \/ CellLess(x, y)

\* round(q, digits) for q >= 0
RoundRat(q, digits) ==
  LET scale == IF digits = 2 THEN 100 ELSE 1000000
  IN Rat((2 * q[1] * scale + q[2]) \div (2 * q[2]), scale)

-----------------------------------------------------------------------------
(* Missing-value imputation: run_missing_imputation                        *)

\* a key that the decision dict does not hold
AbsentKey == "<absent>"

NoValue == [has |-> FALSE, v |-> Null]
Value(x) == [has |-> TRUE, v |-> x]

IsNumericDtype(dtype) == dtype \in {"int64", "float64", "bool"}

\* mutant: a constant strategy is accepted without its fill value
ValidateDecision_NoFillCheck(decision) ==
  IF ~decision.is_dict THEN Err("ValueError")
  ELSE IF decision.numeric_strategy = AbsentKey \/ decision.categorical_strategy = AbsentKey
       THEN Err("ValueError")
  ELSE IF decision.numeric_strategy \notin {"median", "mean", "constant"} THEN Err("ValueError")
  ELSE IF decision.categorical_strategy \notin {"most_frequent", "constant"} THEN Err("ValueError")
  ELSE IF decision.exclude_cols.t \notin {"absent", "list"} THEN Err("ValueError")
  ELSE IF decision.include_cols.t \notin {"absent", "none", "list"} THEN Err("ValueError")
  ELSE IF decision.per_column.t \notin {"absent", "none", "dict"} THEN Err("ValueError")
  ELSE Ok(TRUE)

\* mutant: categorical_strategy is validated only when it is given
ValidateDecision_CategoricalOptional(decision) ==
  IF ~decision.is_dict THEN Err("ValueError")
  ELSE IF decision.numeric_strategy = AbsentKey THEN Err("ValueError")
  ELSE IF decision.numeric_strategy \notin {"median", "mean", "constant"} THEN Err("ValueError")
  ELSE IF decision.categorical_strategy \notin {AbsentKey, "most_frequent", "constant"}
       THEN Err("ValueError")
  ELSE IF decision.numeric_strategy = "constant" /\ ~decision.numeric_fill_value.has
       THEN Err("ValueError")
  ELSE IF decision.categorical_strategy = "constant" /\ ~decision.categorical_fill_value.has
       THEN Err("ValueError")
  ELSE IF decision.exclude_cols.t \notin {"absent", "list"} THEN Err("ValueError")
  ELSE IF decision.include_cols.t \notin {"absent", "none", "list"} THEN Err("ValueError")
  ELSE IF decision.per_column.t \notin {"absent", "none", "dict"} THEN Err("ValueError")
  ELSE Ok(TRUE)

ValidateDecision(decision) ==
  IF ~decision.is_dict THEN Err("ValueError")
  ELSE IF decision.numeric_strategy = AbsentKey \/ decision.categorical_strategy = AbsentKey
       THEN Err("ValueError")
  ELSE IF decision.numeric_strategy \notin {"median", "mean", "constant"} THEN Err("ValueError")
  ELSE IF decision.categorical_strategy \notin {"most_frequent", "constant"} THEN Err("ValueError")
  ELSE IF decision.numeric_strategy = "constant" /\ ~decision.numeric_fill_value.has
       THEN Err("ValueError")
  ELSE IF decision.categorical_strategy = "constant" /\ ~decision.categorical_fill_value.has
       THEN Err("ValueError")
  ELSE IF decision.exclude_cols.t \notin {"absent", "list"} THEN Err("ValueError")
  ELSE IF decision.include_cols.t \notin {"absent", "none", "list"} THEN Err("ValueError")
  ELSE IF decision.per_column.t \notin {"absent", "none", "dict"} THEN Err("ValueError")
  ELSE Ok(TRUE)

ResolveFillValue(series, strategy, fill_value) ==
  IF strategy = "constant" THEN Ok(fill_value)
  ELSE
    LET s == DropNa(series.cells)
    IN IF s = <<>> THEN Err("ValueError")
       ELSE IF strategy \in {"median", "mean"}
            THEN IF \E i \in DOMAIN s : s[i].k # "num"
                 THEN Err("TypeError")
                 ELSE Ok(NumCell(IF strategy = "median" THEN Median(s) ELSE Mean(s)))
       ELSE IF strategy = "most_frequent" THEN Ok(Mode(s))
       ELSE Err("ValueError")

\* Series.fillna(value)
FillNa(cells, value) == [r \in DOMAIN cells |-> IF IsNa(cells[r]) THEN value ELSE cells[r]]

ChangesRow(plan, missing_before, missing_after, n_rows, used_value) ==
  LET imputed == IF missing_before - missing_after > 0 THEN missing_before - missing_after ELSE 0
      pct == Rat(imputed * 100, IF n_rows > 1 THEN n_rows ELSE 1)
  IN [column |-> plan.column, dtype |-> plan.dtype, kind |-> plan.kind,
      strategy |-> plan.strategy,
      fill_value_used |-> IF used_value.k = "num" /\ used_value.n[2] # 1
                          THEN NumCell(RoundRat(used_value.n, 6)) ELSE used_value,
      missing_before |-> missing_before, missing_after |-> missing_after,
      imputed |-> imputed, pct_imputed |-> RoundRat(pct, 2)]

\* the per_column override of a column: [none |-> TRUE] when there is none
OverrideOf(per_column, col) ==
  IF per_column.t # "dict" \/ ~\E i \in DOMAIN per_column.m : per_column.m[i].col = col
  THEN [none |-> TRUE]
  ELSE [none |-> FALSE,
        ov |-> per_column.m[CHOOSE i \in DOMAIN per_column.m : per_column.m[i].col = col].ov]

\* the plan of one column (lines 266-286): the global strategy of its kind,
\* then the override when it is a non-empty dict
PlanOf(dfcol, decision) ==
  LET kind == IF IsNumericDtype(dfcol.dtype) THEN "numeric" ELSE "categorical"
      strategy0 == IF kind = "numeric" THEN decision.numeric_strategy
                   ELSE decision.categorical_strategy
      global_fill == IF kind = "numeric" THEN decision.numeric_fill_value
                     ELSE decision.categorical_fill_value
      fill0 == IF strategy0 = "constant" /\ global_fill.has THEN global_fill.v ELSE Null
      o == OverrideOf(decision.per_column, dfcol.name)
      plan(strategy, fill) == [column |-> dfcol.name, dtype |-> dfcol.dtype, kind |-> kind,
                               strategy |-> strategy, fill_value |-> fill]
  IN IF strategy0 = AbsentKey THEN Err("KeyError")
     ELSE IF o.none \/ (~o.ov.has_strategy /\ ~o.ov.fill_value.has)
     THEN Ok(plan(strategy0, fill0))
     ELSE LET strategy == IF o.ov.has_strategy THEN o.ov.strategy ELSE strategy0
          IN IF strategy = "constant"
             THEN IF ~o.ov.fill_value.has THEN Err("ValueError")
                  ELSE Ok(plan(strategy, o.ov.fill_value.v))
             ELSE Ok(plan(strategy, Null))

\* mutant: the guard that keeps the target out of the imputed columns is gone
TargetInScope_Unchecked(target, scoped_cols) == FALSE

\* line 259: the (named) target is one of the resolved columns
TargetInScope(target, scoped_cols) == IsIn(target, scoped_cols)

\* mutant: the filled series is computed and thrown away
FillColumn_NotAssigned(cells, value) == cells

\* mutant: the whole column is set to the fill value
FillColumn_Overwrite(cells, value) == [r \in DOMAIN cells |-> value]

\* line 298: df_after[col] = s.fillna(used_value)
FillColumn(cells, value) == FillNa(cells, value)

\* mutant: no check for a column without values, the statistic of nothing is NaN
ResolveFillValue_NoEmptyCheck(series, strategy, fill_value) ==
  IF strategy # "constant" /\ DropNa(series.cells) = <<>>
  THEN Ok(Null)
  ELSE ResolveFillValue(series, strategy, fill_value)

\* line 296: used_value = _resolve_fill_value(s, plan.strategy, plan.fill_value)
UsedValue(series, strategy, fill_value) == ResolveFillValue(series, strategy, fill_value)

\* lines 250-257: the resolved column universe
\* mutant: an empty include_cols list is read as "no include_cols"
ScopedCols_EmptyIncludeIgnored(df, scope, decision) ==
  LET features == scope.features
      intended == IF decision.include_cols.t = "list" /\ decision.include_cols.l # <<>>
                  THEN Range(decision.include_cols.l) ELSE Range(features)
      exclude_cols == Range(decision.exclude_cols.l)
  IN Filter(features, [c \in Range(features) |->
                         c \in intended /\ c \notin exclude_cols /\ HasColumn(df, c)])

ScopedCols(df, scope, decision) ==
  LET features == scope.features
      intended == IF decision.include_cols.t = "list"
                  THEN Range(decision.include_cols.l) ELSE Range(features)
      exclude_cols == Range(decision.exclude_cols.l)
  IN Filter(features, [c \in Range(features) |->
                         c \in intended /\ c \notin exclude_cols /\ HasColumn(df, c)])

\* lines 263-286: one plan per resolved column
BuildPlans(df, scoped_cols, decision) ==
  [i \in DOMAIN scoped_cols |-> PlanOf(Col(df, scoped_cols[i]), decision)]

\* what the execution loop holds: df_after, the audit rows and the counters
Filled(df, rows, total, affected) ==
  [df |-> df, rows |-> rows, total |-> total, affected |-> affected]

\* lines 299-306: the audit row of the plan and the counters
FillCounted(plan, acc, missing_before, used_value, cells2, missing_after) ==
  LET imputed == IF missing_before - missing_after > 0
                 THEN missing_before - missing_after ELSE 0
  IN Ok(Filled([j \in DOMAIN acc.df |->
                  IF acc.df[j].name = plan.column
                  THEN [name |-> acc.df[j].name, dtype |-> acc.df[j].dtype, cells |-> cells2]
                  ELSE acc.df[j]],
               Append(acc.rows, ChangesRow(plan, missing_before, missing_after,
                                           CaptureStructuralSnapshot(acc.df).n_rows,
                                           used_value)),
               acc.total + imputed,
               acc.affected + (IF imputed > 0 THEN 1 ELSE 0)))

\* lines 297-299: the column is assigned only when it had a null
FillWith(plan, acc, series, missing_before, used) ==
  IF ~used.ok THEN used
  ELSE IF missing_before > 0
       THEN FillCounted(plan, acc, missing_before, used.v, FillColumn(series.cells, used.v),
                        CountNa(FillColumn(series.cells, used.v)))
       ELSE FillCounted(plan, acc, missing_before, used.v, series.cells,
                        CountNa(series.cells))

\* lines 293-296: the series, its nulls and the value to fill them with
FillSeries(plan, acc, series) ==
  FillWith(plan, acc, series, CountNa(series.cells),
           UsedValue(series, plan.strategy, plan.fill_value))

\* lines 292-306: the execution loop's body for one plan
FillStep(plan, acc) == FillSeries(plan, acc, Col(acc.df, plan.column))

\* lines 308-318: what _apply_imputation returns
ImputationDone(df, decision, scoped_cols, acc) ==
  Ok([df |-> acc.df, changes |-> acc.rows,
      meta |-> [executed |-> TRUE, total_imputed_cells |-> acc.total,
                affected_columns |-> acc.affected,
                scoped_cols_considered |-> scoped_cols,
                excluded_cols_effective |->
                  Sorted(Filter(NameOrder,
                                [c \in Range(NameOrder) |->
                                   c \in Range(decision.exclude_cols.l)
                                   /\ HasColumn(df, c)])),
                target_preserved |-> TRUE]])

\* line 259 and lines 263-286: the target guard, then the first plan that
\* cannot be built raises
PlansOrError(target, scoped_cols, plans) ==
  IF TargetInScope(target, scoped_cols) THEN Err("ValueError")
  ELSE IF \E i \in DOMAIN plans : ~plans[i].ok
       THEN plans[CHOOSE i \in DOMAIN plans :
                    ~plans[i].ok /\ \A j \in 1..(i - 1) : plans[j].ok]
  ELSE Ok([scoped_cols |-> scoped_cols, plans |-> [i \in DOMAIN plans |-> plans[i].v]])

PlanScoped(df, scope, decision, scoped_cols) ==
  PlansOrError(scope.target, scoped_cols, BuildPlans(df, scoped_cols, decision))

\* lines 248-286: the copy, the resolved columns and the plans
PlanImputation(df, scope, decision) ==
  PlanScoped(df, scope, decision, ScopedCols(df, scope, decision))

RECURSIVE ImputationLoop(_, _, _, _, _)
\* lines 292-306: the plans run in order; the first that fails raises
ImputationNext(df, decision, planned, i, step) ==
  IF ~step.ok THEN step ELSE ImputationLoop(df, decision, planned, i + 1, step.v)

ImputationLoop(df, decision, planned, i, acc) ==
  IF i > Len(planned.plans) THEN ImputationDone(df, decision, planned.scoped_cols, acc)
  ELSE ImputationNext(df, decision, planned, i, FillStep(planned.plans[i], acc))

ExecutePlans(df, decision, planned) ==
  IF ~planned.ok THEN planned
  ELSE ImputationLoop(df, decision, planned.v, 1, Filled(df, <<>>, 0, 0))

ApplyImputation(df, scope, decision) ==
  ExecutePlans(df, decision, PlanImputation(df, scope, decision))

\* what run_missing_imputation returns without a scope (lines 139-154)
NotExecuted(df, scope, decision) ==
  [ok |-> TRUE, df |-> df, scope |-> scope, decision |-> decision,
   impact |-> <<>>, changes |-> <<>>,
   meta |-> [executed |-> FALSE, reason |-> "scope ausente",
             total_imputed_cells |-> 0, affected_columns |-> 0,
             scoped_cols_considered |-> <<>>, excluded_cols_effective |-> <<>>,
             target_preserved |-> TRUE]]

\* lines 159-172: the payload after _apply_imputation
ImputationPayload(df, scope, decision, applied) ==
  IF ~applied.ok THEN applied
  ELSE [ok |-> TRUE, df |-> applied.v.df, scope |-> scope, decision |-> decision,
        impact |-> BuildBeforeAfterTable(CaptureStructuralSnapshot(df),
                                         CaptureStructuralSnapshot(applied.v.df)),
        changes |-> applied.v.changes, meta |-> applied.v.meta]

\* mutant: the decision is validated before the scope is looked at
RunMissingImputation_ValidatesFirst(df, scope, decision) ==
  IF ~ValidateDecision(decision).ok THEN ValidateDecision(decision)
  ELSE IF scope.none THEN NotExecuted(df, scope, decision)
  ELSE ImputationPayload(df, scope, decision, ApplyImputation(df, scope.v, decision))

\* scope: [none |-> TRUE] for None, else [none |-> FALSE, v |-> NormalizationScope]
RunMissingImputation(df, scope, decision) ==
  IF scope.none THEN NotExecuted(df, scope, decision)
  ELSE IF ~ValidateDecision(decision).ok THEN ValidateDecision(decision)
  ELSE ImputationPayload(df, scope, decision, ApplyImputation(df, scope.v, decision))

\* --- inputs of the imputer ---------------------------------------------------

m == <<"m">>
u == <<"u">>
Yes == <<"Y", "e", "s">>

\* three rows: tenure 1, 24 and a null, contract without a null
TenureGapTable ==
  <<[name |-> "tenure", dtype |-> "float64", cells |-> <<IntCell(1), IntCell(24), Null>>],
    [name |-> "contract", dtype |-> "object", cells |-> <<StrCell(m), StrCell(u), StrCell(m)>>],
    [name |-> "Churn", dtype |-> "object", cells |-> <<Null, StrCell(Yes), StrCell(Yes)>>]>>

\* tenure is numeric, contract is text; the target Churn has a null in its
\* first row and "Yes" below it
ImputeTables ==
  UNION {
    {<<[name |-> "tenure", dtype |-> "float64", cells |-> ct],
       [name |-> "contract", dtype |-> "object", cells |-> cc],
       [name |-> "Churn", dtype |-> "object",
        cells |-> [r \in 1..n |-> IF r = 1 THEN Null ELSE StrCell(Yes)]]>> :
       ct \in [1..n -> {Null, IntCell(1), IntCell(24)}],
       cc \in [1..n -> {Null, StrCell(m)}]} : n \in 0..MaxRows}
  \cup {TenureGapTable}

ImputeScopes ==
  {NoScope,
   SomeScope(<<"tenure", "contract">>, "Churn"),
   SomeScope(<<"contract", "gone", "tenure">>, "Churn"),
   SomeScope(<<"tenure", "contract", "Churn">>, "Churn")}

KeyAbsent == [t |-> "absent", l |-> <<>>]
KeyNone == [t |-> "none", l |-> <<>>]
KeyOther == [t |-> "other", l |-> <<>>]
KeyList(l) == [t |-> "list", l |-> l]

NoPerColumn == [t |-> "absent", m |-> <<>>]

PerColumn(col, has_strategy, strategy, fill_value) ==
  [t |-> "dict",
   m |-> <<[col |-> col,
            ov |-> [has_strategy |-> has_strategy, strategy |-> strategy,
                    fill_value |-> fill_value]]>>]

Decision(ns, cs, nfv, cfv, inc, exc, pc) ==
  [is_dict |-> TRUE, numeric_strategy |-> ns, categorical_strategy |-> cs,
   numeric_fill_value |-> nfv, categorical_fill_value |-> cfv,
   include_cols |-> inc, exclude_cols |-> exc, per_column |-> pc]

\* the two strategies and their fill values, in every combination
GlobalDecisions ==
  {Decision(ns, cs, nfv, cfv, KeyAbsent, KeyAbsent, NoPerColumn) :
     ns \in {AbsentKey, "median", "mean", "constant", "most_frequent"},
     cs \in {AbsentKey, "most_frequent", "constant", "median"},
     nfv \in {NoValue, Value(IntCell(0))},
     cfv \in {NoValue, Value(StrCell(u))}}

\* complete strategies: statistics, or constants with their fill values
BaseStrategies ==
  {<<"median", "most_frequent", NoValue, NoValue>>,
   <<"constant", "constant", Value(IntCell(0)), Value(StrCell(u))>>}

\* include_cols / exclude_cols in every combination, over complete strategies
FilterDecisions ==
  {Decision(b[1], b[2], b[3], b[4], inc, exc, NoPerColumn) :
     b \in BaseStrategies,
     inc \in {KeyAbsent, KeyNone, KeyOther, KeyList(<<>>), KeyList(<<"tenure">>),
              KeyList(<<"tenure", "Churn">>)},
     exc \in {KeyAbsent, KeyNone, KeyList(<<>>), KeyList(<<"contract">>),
              KeyList(<<"Churn">>)}}

Overrides ==
  {<<FALSE, AbsentKey, NoValue>>,
   <<FALSE, AbsentKey, Value(IntCell(7))>>,
   <<TRUE, "mean", NoValue>>,
   <<TRUE, "most_frequent", NoValue>>,
   <<TRUE, "constant", NoValue>>,
   <<TRUE, "constant", Value(IntCell(7))>>,
   <<TRUE, "bogus", NoValue>>}

\* one per_column override on one column, over complete strategies
PerColumnDecisions ==
  {Decision(b[1], b[2], b[3], b[4], KeyAbsent, KeyAbsent, pc) :
     b \in BaseStrategies,
     pc \in {[t |-> "none", m |-> <<>>], [t |-> "other", m |-> <<>>],
             [t |-> "dict", m |-> <<>>]}
            \cup {PerColumn(c, o[1], o[2], o[3]) :
                    c \in {"tenure", "contract", "Churn"}, o \in Overrides}}

NotADict ==
  [is_dict |-> FALSE, numeric_strategy |-> AbsentKey, categorical_strategy |-> AbsentKey,
   numeric_fill_value |-> NoValue, categorical_fill_value |-> NoValue,
   include_cols |-> KeyAbsent, exclude_cols |-> KeyAbsent, per_column |-> NoPerColumn]

ImputeDecisions ==
  GlobalDecisions \cup FilterDecisions \cup PerColumnDecisions \cup {NotADict}

\* run_missing_imputation(df, scope, decision)
ImputeCall ==
  /\ Idle
  /\ \E df \in ImputeTables, scope \in ImputeScopes, decision \in ImputeDecisions :
       /\ call' = [op |-> "impute", df |-> df, scope |-> scope, decision |-> decision]
       /\ ret' = RunMissingImputation(df, scope, decision)
  /\ UNCHANGED <<prev, np_draws, heap, _model, joblib_loads, app_started>>

NextImpute == ImputeCall

SpecImpute == Init /\ [][NextImpute]_vars

\* --- what the imputation claims speak about -----------------------------------

ImputeWithScope == call.op = "impute" /\ ~call.scope.none

\* the resolved column universe of the call: the features that pass
\* include_cols (when it is a list) and exclude_cols and are columns of the table
Universe ==
  LET d == call.decision
      f == Range(call.scope.v.features)
  IN {c \in f : /\ (d.include_cols.t = "list" => c \in Range(d.include_cols.l))
                /\ c \notin Range(d.exclude_cols.l)
                /\ HasColumn(call.df, c)}

\* the per_column entries of the call that name column c
OverridesOn(c) ==
  {i \in DOMAIN call.decision.per_column.m : call.decision.per_column.m[i].col = c}

\* the strategy in force for column c: the override's, else the one of its kind
EffectiveStrategy(c) ==
  LET d == call.decision
      own == {d.per_column.m[i].ov.strategy : i \in {j \in OverridesOn(c) :
                                                       d.per_column.m[j].ov.has_strategy}}
  IN IF own # {} THEN CHOOSE x \in own : TRUE
     ELSE IF Col(call.df, c).dtype = "float64" THEN d.numeric_strategy
     ELSE d.categorical_strategy

HasValue(cells) == \E r \in DOMAIN cells : ~IsNa(cells[r])

\* the decision holds both strategies, each from its set, and the fill value
\* of every constant strategy
DecisionComplete ==
  LET d == call.decision
  IN /\ d.is_dict
     /\ d.numeric_strategy \in {"median", "mean", "constant"}
     /\ d.categorical_strategy \in {"most_frequent", "constant"}
     /\ d.numeric_strategy = "constant" => d.numeric_fill_value.has
     /\ d.categorical_strategy = "constant" => d.categorical_fill_value.has

\* include_cols, exclude_cols and per_column have the container types asked for
FiltersWellTyped ==
  LET d == call.decision
  IN /\ d.include_cols.t \in {"absent", "none", "list"}
     /\ d.exclude_cols.t \in {"absent", "list"}
     /\ d.per_column.t \in {"absent", "none", "dict"}

\* --- C6 ------------------------------------------------------------------------

\* C6: a run whose resolved column universe holds the target fails, and every
\* run that succeeds returns the target column as it was given, whatever
\* include_cols and per_column name.
C6_TargetSafety ==
  call.op = "impute" =>
    /\ (~call.scope.none /\ call.scope.v.target \in Universe) => ~ret.ok
    /\ ret.ok => Col(ret.df, "Churn").cells = Col(call.df, "Churn").cells

\* the target is a declared feature, the decision is in order, and the run fails
C6_Witness ==
  /\ ImputeWithScope /\ DecisionComplete /\ FiltersWellTyped
  /\ call.scope.v.target \in Universe
  /\ call.decision.per_column.t = "dict" /\ OverridesOn("Churn") # {}
  /\ HasValue(Col(call.df, "Churn").cells)
  /\ ~ret.ok

\* --- C7 ------------------------------------------------------------------------

\* C7: after a successful run, a resolved column whose strategy in force is not
\* constant and that had a non-null value has no null left, and its audit row
\* says missing_after = 0.
C7_Completeness ==
  (ImputeWithScope /\ ret.ok) =>
    \A c \in Universe :
      (EffectiveStrategy(c) # "constant" /\ HasValue(Col(call.df, c).cells)) =>
        /\ CountNa(Col(ret.df, c).cells) = 0
        /\ \E i \in DOMAIN ret.changes :
             ret.changes[i].column = c /\ ret.changes[i].missing_after = 0

\* a successful run that filled a null of tenure with a statistic
C7_Witness ==
  /\ ImputeWithScope /\ ret.ok
  /\ "tenure" \in Universe
  /\ EffectiveStrategy("tenure") = "median"
  /\ Col(call.df, "tenure").cells = <<IntCell(1), Null>>
  /\ Col(ret.df, "tenure").cells = <<IntCell(1), IntCell(1)>>

\* --- C8 ------------------------------------------------------------------------

\* C8: the run fails when a resolved column has no non-null value and its
\* strategy in force is median, mean or most_frequent; and a run whose decision
\* is in order, whose universe leaves the target out and whose resolved columns
\* all take a declared constant succeeds, all-null columns included.
C8_AllNullColumn ==
  ImputeWithScope =>
    /\ (\E c \in Universe :
          /\ ~HasValue(Col(call.df, c).cells)
          /\ EffectiveStrategy(c) \in {"median", "mean", "most_frequent"}) => ~ret.ok
    /\ ( /\ DecisionComplete /\ FiltersWellTyped
         /\ call.scope.v.target \notin Universe
         /\ \A c \in Universe :
              /\ EffectiveStrategy(c) = "constant"
              /\ \/ \E i \in OverridesOn(c) : call.decision.per_column.m[i].ov.fill_value.has
                 \/ OverridesOn(c) = {} ) => ret.ok

\* the decision is in order, the only obstacle is the all-null tenure column
C8_Witness ==
  /\ ImputeWithScope /\ DecisionComplete /\ FiltersWellTyped
  /\ call.scope.v.target \notin Universe
  /\ call.decision.per_column.t = "absent"
  /\ call.decision.numeric_strategy = "mean"
  /\ Col(call.df, "tenure").cells = <<Null, Null>>
  /\ Col(call.df, "contract").cells = <<StrCell(m), StrCell(m)>>
  /\ "tenure" \in Universe
  /\ ~ret.ok

\* --- C9 ------------------------------------------------------------------------

\* C9: with a scope, the run fails unless the decision is a mapping holding
\* numeric_strategy in {median, mean, constant}, categorical_strategy in
\* {most_frequent, constant} and the fill value of each constant strategy.
C9_DecisionRequired == (ImputeWithScope /\ ~DecisionComplete) => ~ret.ok

\* a decision that only names the numeric strategy is refused
C9_Witness ==
  /\ ImputeWithScope /\ ~ret.ok
  /\ call.decision.is_dict
  /\ call.decision.numeric_strategy = "median"
  /\ call.decision.categorical_strategy = AbsentKey
  /\ Col(call.df, "tenure").cells = <<IntCell(1), Null>>

\* --- C10 -----------------------------------------------------------------------

\* C10: the run fails when the per_column override of a resolved column has no
\* strategy key, has a strategy outside {median, mean, most_frequent,
\* constant}, or has strategy constant without fill_value.
C10_OverrideRequiresStrategy ==
  (ImputeWithScope /\ DecisionComplete /\ FiltersWellTyped) =>
    ((\E c \in Universe : \E i \in OverridesOn(c) :
        LET ov == call.decision.per_column.m[i].ov
        IN \/ ~ov.has_strategy
           \/ ov.strategy \notin {"median", "mean", "most_frequent", "constant"}
           \/ (ov.strategy = "constant" /\ ~ov.fill_value.has))
     => ~ret.ok)

\* --- C11 -----------------------------------------------------------------------

\* the features that are in keep, are not excluded and are columns of the
\* table, in the order of scope.features
C11_Restrict(keep) ==
  LET f == call.scope.v.features
  IN Filter(f, [c \in Range(f) |->
                  /\ c \in keep
                  /\ c \notin Range(call.decision.exclude_cols.l)
                  /\ HasColumn(call.df, c)])

\* the columns of the audit rows, in their order
C11_AuditColumns == [i \in DOMAIN ret.changes |-> ret.changes[i].column]

\* C11 as claimed: the columns considered are features /\ (include_cols if it
\* is given and non-empty, else features) - exclude_cols, among the columns of
\* the table, in the order of scope.features; an empty include_cols list
\* counts as an absent one.
C11_EmptyIncludeIsAbsent ==
  (ImputeWithScope /\ ret.ok) =>
    LET inc == call.decision.include_cols
        expected == C11_Restrict(IF inc.t = "list" /\ inc.l # <<>>
                                 THEN Range(inc.l) ELSE Range(call.scope.v.features))
    IN ret.meta.scoped_cols_considered = expected /\ C11_AuditColumns = expected

\* C11, with include_cols read as the code reads it: the columns considered
\* are features /\ (include_cols if it is a list, else features) -
\* exclude_cols, among the columns of the table, in the order of
\* scope.features, one audit row each; an empty include_cols list leaves no
\* column to consider and the table comes back as it was given.
C11_ColumnUniverse ==
  (ImputeWithScope /\ ret.ok) =>
    LET inc == call.decision.include_cols
        expected == C11_Restrict(IF inc.t = "list"
                                 THEN Range(inc.l) ELSE Range(call.scope.v.features))
    IN /\ ret.meta.scoped_cols_considered = expected
       /\ C11_AuditColumns = expected
       /\ (inc.t = "list" /\ inc.l = <<>>) => (expected = <<>> /\ ret.df = call.df)

\* include_cols is the empty list, tenure has a null, and the run leaves it
C11_Witness ==
  /\ ImputeWithScope /\ ret.ok
  /\ call.decision.include_cols = KeyList(<<>>)
  /\ call.decision.exclude_cols = KeyAbsent
  /\ Col(call.df, "tenure").cells = <<IntCell(1), Null>>
  /\ Col(ret.df, "tenure").cells = <<IntCell(1), Null>>
  /\ ret.meta.scoped_cols_considered = <<>>

-----------------------------------------------------------------------------
(* Train/test split: run_train_test_split                                  *)
(* The module defines run_train_test_split and _split_X_y more than once;  *)
(* Python keeps the last definition of each, which is the one modelled.    *)

\* a scalar of a decision: t is its Python type ("absent" when the key is
\* missing), n its numeric value as a fraction (True is 1, False is 0)
Scalar(t, n) == [t |-> t, n |-> n]

NoKey == Scalar("absent", <<0, 1>>)
PyFloat(num, den) == Scalar("float", <<num, den>>)
PyInt(i) == Scalar("int", <<i, 1>>)
PyBool(b) == Scalar("bool", <<IF b THEN 1 ELSE 0, 1>>)
PyNone == Scalar("none", <<0, 1>>)
PyStr == Scalar("str", <<0, 1>>)

\* a column-name valued key: t is "absent", "none", "str" or "other"
NameKey(t, name) == [t |-> t, name |-> name]

\* str.strip() of a name is empty
BlankName(name) == name \in {"", " "}

\* an exception, with the step of the run that raised it
ErrAt(e, stage) == [ok |-> FALSE, error |-> e, stage |-> stage]

\* mutant: a scope whose features hold the target is let through
ValidateScope_TargetAllowed(df, scope) ==
  IF scope.none THEN ErrAt("TypeError", "validate_scope")
  ELSE IF BlankName(scope.v.target) THEN ErrAt("ValueError", "validate_scope")
  ELSE IF \E i \in DOMAIN scope.v.features : ~HasColumn(df, scope.v.features[i])
       THEN ErrAt("ValueError", "validate_scope")
  ELSE IF ~HasColumn(df, scope.v.target) THEN ErrAt("ValueError", "validate_scope")
  ELSE Ok(TRUE)

ValidateScope(df, scope) ==
  IF scope.none THEN ErrAt("TypeError", "validate_scope")
  ELSE IF BlankName(scope.v.target) THEN ErrAt("ValueError", "validate_scope")
  ELSE IF \E i \in DOMAIN scope.v.features : ~HasColumn(df, scope.v.features[i])
       THEN ErrAt("ValueError", "validate_scope")
  ELSE IF ~HasColumn(df, scope.v.target) THEN ErrAt("ValueError", "validate_scope")
  ELSE IF IsIn(scope.v.target, scope.v.features) THEN ErrAt("ValueError", "validate_scope")
  ELSE Ok(TRUE)

\* isinstance(x, int): bool is a subclass of int
IsInstanceInt(x) == x.t \in {"int", "bool"}

\* _validate_decision of the split module
ValidateDecisionSplit(decision, scope) ==
  LET E(e) == ErrAt(e, "validate_decision")
      test_size == decision.test_size
      has_stratify_col == decision.stratify_col.t \notin {"absent", "none"}
  IN IF ~decision.is_dict THEN E("TypeError")
     ELSE IF scope.none THEN E("TypeError")
     ELSE IF \/ decision.test_size.t = "absent" \/ decision.random_state.t = "absent"
             \/ decision.shuffle.t = "absent" \/ decision.stratify.t = "absent"
          THEN E("KeyError")
     ELSE IF ~(test_size.t = "float" \/ IsInstanceInt(test_size)) THEN E("TypeError")
     ELSE IF test_size.t = "float"
             /\ ~(RatLess(<<0, 1>>, test_size.n) /\ RatLess(test_size.n, <<1, 1>>))
          THEN E("ValueError")
     ELSE IF IsInstanceInt(test_size) /\ RatLess(test_size.n, <<1, 1>>) THEN E("ValueError")
     ELSE IF ~IsInstanceInt(decision.random_state) THEN E("TypeError")
     ELSE IF decision.shuffle.t # "bool" THEN E("TypeError")
     ELSE IF decision.stratify.t # "bool" THEN E("TypeError")
     ELSE IF decision.stratify = PyBool(TRUE) /\ ~has_stratify_col THEN E("KeyError")
     ELSE IF decision.stratify = PyBool(TRUE)
             /\ (decision.stratify_col.t # "str" \/ BlankName(decision.stratify_col.name))
          THEN E("TypeError")
     ELSE IF decision.stratify = PyBool(TRUE) /\ decision.stratify_col.name # scope.v.target
          THEN E("ValueError")
     ELSE IF decision.stratify = PyBool(FALSE) /\ has_stratify_col THEN E("ValueError")
     ELSE IF decision.audit_categorical_cardinality.t \notin {"absent", "bool"}
          THEN E("TypeError")
     ELSE Ok(TRUE)

\* the rows at positions idx, in that order (positional indexing)
TakeRows(df, idx) ==
  [j \in DOMAIN df |->
     [name |-> df[j].name, dtype |-> df[j].dtype,
      cells |-> [k \in DOMAIN idx |-> df[j].cells[idx[k]]]]]

\* a Series: the cells of one column and the rows they come from
Series(column, idx) ==
  [name |-> column.name, dtype |-> column.dtype, index |-> idx,
   cells |-> [k \in DOMAIN idx |-> column.cells[idx[k]]]]

\* a DataFrame with its row labels
Frame(df, idx) == [index |-> idx, columns |-> TakeRows(df, idx)]

SplitXy(df, scope) ==
  LET n == CaptureStructuralSnapshot(df).n_rows
      all == [r \in 1..n |-> r]
  IN [X |-> Frame(Loc(df, scope.features), all),
      y |-> Series(Col(df, scope.target), all)]

\* --- sklearn.model_selection.train_test_split, as the run calls it -------------

\* the generator of a call: seeded by an int random_state (True seeds as 1);
\* when random_state is None it is numpy's global generator, whose output
\* depends on how many draws were taken from it before
SeedOf(random_state, draws) ==
  IF random_state.t = "none" THEN draws ELSE random_state.n[1]

\* rng.permutation(n) as positions 1..n: a permutation fixed by the seed
Permutation(seed, n) == [i \in 1..n |-> ((n - i + seed + 1) % n) + 1]

\* s taken in the order of a permutation of its positions
Permute(s, seed) == LET p == Permutation(seed, Len(s)) IN [i \in DOMAIN s |-> s[p[i]]]

CeilDiv(a, b) == (a + b - 1) \div b

\* _validate_shuffle_split with train_size=None: the sizes of the two parts
ValidateShuffleSplit(n_samples, test_size) ==
  IF test_size.t = "int" /\ (test_size.n[1] >= n_samples \/ test_size.n[1] <= 0)
  THEN ErrAt("ValueError", "train_test_split")
  ELSE IF test_size.t = "float"
          /\ ~(RatLess(<<0, 1>>, test_size.n) /\ RatLess(test_size.n, <<1, 1>>))
       THEN ErrAt("ValueError", "train_test_split")
  ELSE IF test_size.t \notin {"int", "float"} THEN ErrAt("ValueError", "train_test_split")
  ELSE
    LET n_test == IF test_size.t = "float"
                  THEN CeilDiv(test_size.n[1] * n_samples, test_size.n[2])
                  ELSE test_size.n[1]
        n_train == n_samples - n_test
    IN IF n_train <= 0 THEN ErrAt("ValueError", "train_test_split")
       ELSE Ok([n_train |-> n_train, n_test |-> n_test])

RECURSIVE SumInts(_)
SumInts(s) == IF s = <<>> THEN 0 ELSE Head(s) + SumInts(Tail(s))

\* _approximate_mode: n_draws shared among the classes in proportion to
\* their counts, the leftover draws going to the largest remainders, a tie
\* being settled by the generator
ApproximateMode(class_counts, n_draws, seed) ==
  LET total == SumInts(class_counts)
      floored == [i \in DOMAIN class_counts |-> (class_counts[i] * n_draws) \div total]
      remainder == [i \in DOMAIN class_counts |-> (class_counts[i] * n_draws) % total]
      RECURSIVE Add(_, _, _)
      Add(acc, bumped, need) ==
        IF need = 0 THEN acc
        ELSE LET open == DOMAIN class_counts \ bumped
                 top == {i \in open : \A k \in open : remainder[k] <= remainder[i]}
                 nth == (seed % Cardinality(top)) + 1
                 pick == CHOOSE i \in top : Cardinality({k \in top : k <= i}) = nth
             IN Add([acc EXCEPT ![pick] = @ + 1], bumped \cup {pick}, need - 1)
  IN Add(floored, {}, n_draws - SumInts(floored))

RECURSIVE Concat(_)
Concat(ss) == IF ss = <<>> THEN <<>> ELSE Head(ss) \o Concat(Tail(ss))

\* the distinct values of non-null cells, sorted (np.unique)
Unique(cells) ==
  LET RECURSIVE Dedup(_)
      Dedup(srt) == IF Len(srt) <= 1 THEN srt
                    ELSE IF srt[1] = srt[2] THEN Dedup(Tail(srt))
                    ELSE <<srt[1]>> \o Dedup(Tail(srt))
  IN Dedup(SortCells(cells))

\* the positions of s that hold x, in increasing order
PositionsOf(x, s) ==
  LET RECURSIVE From(_)
      From(i) == IF i > Len(s) THEN <<>>
                 ELSE IF s[i] = x THEN <<i>> \o From(i + 1) ELSE From(i + 1)
  IN From(1)

\* the positions of each class, and the sizes of the classes
ClassIndices(classes, stratify) ==
  [c \in DOMAIN classes |-> PositionsOf(classes[c], stratify)]

ClassCounts(class_indices) == [c \in DOMAIN class_indices |-> Len(class_indices[c])]

\* the first n_i positions of each permuted class go to train, the next t_i
\* to test; both parts are permuted once more
StratifiedTake(perm, n_i, t_i, seed) ==
  Ok([train |-> Permute(Concat([c \in DOMAIN perm |-> SubSeq(perm[c], 1, n_i[c])]), seed),
      test |-> Permute(Concat([c \in DOMAIN perm |->
                                 SubSeq(perm[c], n_i[c] + 1, n_i[c] + t_i[c])]), seed)])

\* the test draws are shared among what the train draws left of each class
StratifiedAllocate(class_indices, class_counts, n_i, n_test, seed) ==
  StratifiedTake([c \in DOMAIN class_indices |-> Permute(class_indices[c], seed)], n_i,
                 ApproximateMode([c \in DOMAIN class_counts |-> class_counts[c] - n_i[c]],
                                 n_test, seed),
                 seed)

StratifiedByClass(class_indices, class_counts, n_train, n_test, seed) ==
  IF \E c \in DOMAIN class_counts : class_counts[c] < 2
  THEN ErrAt("ValueError", "train_test_split")
  ELSE IF n_train < Len(class_counts) \/ n_test < Len(class_counts)
  THEN ErrAt("ValueError", "train_test_split")
  ELSE StratifiedAllocate(class_indices, class_counts,
                          ApproximateMode(class_counts, n_train, seed), n_test, seed)

StratifiedClasses(class_indices, n_train, n_test, seed) ==
  StratifiedByClass(class_indices, ClassCounts(class_indices), n_train, n_test, seed)

\* StratifiedShuffleSplit: train and test positions, class by class
StratifiedShuffleSplit(stratify, n_train, n_test, seed) ==
  IF \E r \in DOMAIN stratify : IsNa(stratify[r]) THEN ErrAt("ValueError", "train_test_split")
  ELSE StratifiedClasses(ClassIndices(Unique(stratify), stratify), n_train, n_test, seed)

\* train_test_split(X, y, test_size, random_state, shuffle, stratify): the
\* positions of the train rows and of the test rows, and the global draws
TrainTestSplit(n_samples, test_size, random_state, shuffle, stratify, draws) ==
  LET sizes == ValidateShuffleSplit(n_samples, test_size)
      seed == SeedOf(random_state, draws)
      after == IF random_state.t = "none" /\ shuffle THEN draws + 1 ELSE draws
  IN IF ~sizes.ok THEN sizes
     ELSE IF ~shuffle
     THEN IF stratify.given THEN ErrAt("ValueError", "train_test_split")
          ELSE Ok([train |-> [i \in 1..sizes.v.n_train |-> i],
                   test |-> [i \in 1..sizes.v.n_test |-> sizes.v.n_train + i],
                   draws |-> draws])
     ELSE IF stratify.given
     THEN LET parts == StratifiedShuffleSplit(stratify.cells, sizes.v.n_train,
                                              sizes.v.n_test, seed)
          IN IF ~parts.ok THEN parts
             ELSE Ok([train |-> parts.v.train, test |-> parts.v.test, draws |-> after])
     ELSE LET p == Permutation(seed, n_samples)
          IN Ok([train |-> SubSeq(p, sizes.v.n_test + 1, n_samples),
                 test |-> SubSeq(p, 1, sizes.v.n_test),
                 draws |-> after])

\* --- the run and its diagnostics ------------------------------------------------

\* mutant: the split is made without the declared random_state
ApplyTrainTestSplit_NoRandomState(X, y, decision, stratify_series, draws) ==
  TrainTestSplit(Len(y.cells), decision.test_size, PyNone,
                 decision.shuffle = PyBool(TRUE), stratify_series, draws)

\* mutant: the test rows are left in the train part as well
ApplyTrainTestSplit_TestRowsKept(X, y, decision, stratify_series, draws) ==
  LET parts == TrainTestSplit(Len(y.cells), decision.test_size, decision.random_state,
                              decision.shuffle = PyBool(TRUE), stratify_series, draws)
  IN IF ~parts.ok THEN parts
     ELSE Ok([train |-> parts.v.train \o parts.v.test, test |-> parts.v.test,
              draws |-> parts.v.draws])

ApplyTrainTestSplit(X, y, decision, stratify_series, draws) ==
  TrainTestSplit(Len(y.cells), decision.test_size, decision.random_state,
                 decision.shuffle = PyBool(TRUE), stratify_series, draws)

BuildShapes(X_train, X_test, y_train, y_test, scope) ==
  [X_train |-> [rows |-> Len(X_train.index), cols |-> Len(X_train.columns)],
   X_test |-> [rows |-> Len(X_test.index), cols |-> Len(X_test.columns)],
   y_train |-> [rows |-> Len(y_train.cells)],
   y_test |-> [rows |-> Len(y_test.cells)],
   n_features |-> Len(scope.features)]

\* s.value_counts(dropna=False)[x]
CountOf(x, cells) == Cardinality({r \in DOMAIN cells : cells[r] = x})

\* one row per value of the target: its counts in y, y_train and y_test (the
\* rates are the counts over the lengths; the order of the rows is left out)
BuildTargetDistribution(y_all, y_train, y_test) ==
  {[value |-> x, count_all |-> CountOf(x, y_all.cells),
    count_train |-> CountOf(x, y_train.cells),
    count_test |-> CountOf(x, y_test.cells)] : x \in Range(y_all.cells)}

MinClassRate(cells) ==
  IF Len(cells) = 0 THEN <<0, 1>>
  ELSE LET least == CHOOSE x \in Range(cells) :
                      \A z \in Range(cells) : CountOf(x, cells) <= CountOf(z, cells)
       IN Rat(CountOf(least, cells), Len(cells))

\* list(X.columns) == expected_cols
ColumnsMatch(columns, expected_cols) == columns = expected_cols

BuildRiskChecks(X_train, X_test, y_train, y_test, scope) ==
  [scope_integrity |->
     [target_in_X_train |-> HasColumn(X_train.columns, scope.target),
      target_in_X_test |-> HasColumn(X_test.columns, scope.target),
      columns_match_scope_train |-> ColumnsMatch(Columns(X_train.columns), scope.features),
      columns_match_scope_test |-> ColumnsMatch(Columns(X_test.columns), scope.features)],
   target_balance |->
     [min_class_rate_all |-> MinClassRate(y_train.cells \o y_test.cells),
      min_class_rate_train |-> MinClassRate(y_train.cells),
      min_class_rate_test |-> MinClassRate(y_test.cells)]]

RECURSIVE InsertCardinality(_, _)
InsertCardinality(r, rows) ==
  IF rows = <<>> THEN <<r>>
  ELSE LET h == Head(rows)
       IN IF \/ h.n_only_in_test > r.n_only_in_test
             \/ (h.n_only_in_test = r.n_only_in_test /\ h.n_unique_train <= r.n_unique_train)
          THEN <<h>> \o InsertCardinality(r, Tail(rows))
          ELSE <<r>> \o rows

RECURSIVE SortCardinality(_)
\* sort_values(by=[n_only_in_test, n_unique_train], ascending=[False, True])
SortCardinality(rows) ==
  IF rows = <<>> THEN <<>>
  ELSE InsertCardinality(rows[Len(rows)], SortCardinality(SubSeq(rows, 1, Len(rows) - 1)))

BuildCategoricalCardinality(X_train, X_test) ==
  LET cat_cols == Filter(X_train.columns,
                         [c \in Range(X_train.columns) |-> c.dtype = "object"])
      vals(frame, name) == {x.s : x \in Range(DropNa(Col(frame.columns, name).cells))}
      row(c) == LET tr == vals(X_train, c.name)
                    te == vals(X_test, c.name)
                IN [feature |-> c.name, n_unique_train |-> Cardinality(tr),
                    n_unique_test |-> Cardinality(te),
                    n_only_in_test |-> Cardinality(te \ tr),
                    n_only_in_train |-> Cardinality(tr \ te)]
  IN \* X_train[c] is a DataFrame, which has no dtype, when the name c is repeated
     IF X_train.columns # <<>> /\ ~NoDup(Columns(X_train.columns))
     THEN ErrAt("AttributeError", "diagnostics")
     \* sort_values on a frame built from no rows finds no column to sort by
     ELSE IF cat_cols = <<>> THEN ErrAt("KeyError", "diagnostics")
     ELSE Ok(SortCardinality([i \in DOMAIN cat_cols |-> row(cat_cols[i])]))

\* the result of the call and the draws taken from the global generator
RunTrainTestSplit(df, scope, decision, draws) ==
  LET valid_scope == ValidateScope(df, scope)
      valid == ValidateDecisionSplit(decision, scope)
  IN IF ~valid_scope.ok THEN [ret |-> valid_scope, draws |-> draws]
     ELSE IF ~valid.ok THEN [ret |-> valid, draws |-> draws]
     ELSE
       LET xy == SplitXy(df, scope.v)
           stratify_series ==
             IF decision.stratify = PyBool(TRUE)
             THEN [given |-> TRUE,
                   cells |-> Col(df, IF decision.stratify_col.t = "absent"
                                     THEN scope.v.target
                                     ELSE decision.stratify_col.name).cells]
             ELSE [given |-> FALSE, cells |-> <<>>]
           parts == ApplyTrainTestSplit(xy.X, xy.y, decision, stratify_series, draws)
       IN IF ~parts.ok THEN [ret |-> parts, draws |-> draws]
          ELSE
            LET X_train == Frame(xy.X.columns, parts.v.train)
                X_test == Frame(xy.X.columns, parts.v.test)
                y_train == Series(Col(df, scope.v.target), parts.v.train)
                y_test == Series(Col(df, scope.v.target), parts.v.test)
                audit_cat == decision.audit_categorical_cardinality = PyBool(TRUE)
                cardinality == IF audit_cat THEN BuildCategoricalCardinality(X_train, X_test)
                               ELSE Ok(<<>>)
            IN IF ~cardinality.ok THEN [ret |-> cardinality, draws |-> parts.v.draws]
               ELSE
                 [ret |->
                    [ok |-> TRUE, df |-> df, scope |-> scope, decision |-> decision,
                     split |-> [X_train |-> X_train, X_test |-> X_test,
                                y_train |-> y_train, y_test |-> y_test],
                     diagnostics |->
                       [shapes |-> BuildShapes(X_train, X_test, y_train, y_test, scope.v),
                        target_distribution |-> BuildTargetDistribution(xy.y, y_train, y_test),
                        risk_checks |->
                          BuildRiskChecks(X_train, X_test, y_train, y_test, scope.v),
                        audits_cardinality |-> audit_cat,
                        categorical_cardinality |-> cardinality.v]],
                  draws |-> parts.v.draws]

\* --- inputs of the split ---------------------------------------------------------

MaxSplitRows == 4

\* tenure counts the rows, contract alternates m and u; the target Churn takes
\* every combination of No and Yes, or has a null in its first row
SplitTables ==
  UNION {
    {<<[name |-> "tenure", dtype |-> "float64", cells |-> [r \in 1..n |-> IntCell(r)]],
       [name |-> "contract", dtype |-> "object",
        cells |-> [r \in 1..n |-> IF r % 2 = 1 THEN StrCell(m) ELSE StrCell(u)]],
       [name |-> "Churn", dtype |-> "object", cells |-> ct]>> :
       ct \in [1..n -> {StrCell(No), StrCell(Yes)}]
              \cup {[r \in 1..n |-> IF r = 1 THEN Null ELSE StrCell(Yes)]}} :
    n \in 0..MaxSplitRows}

SplitScopes ==
  {NoScope,
   SomeScope(<<"tenure", "contract">>, "Churn"),
   SomeScope(<<"contract", "tenure">>, "Churn"),
   SomeScope(<<"tenure">>, "Churn"),
   SomeScope(<<>>, "Churn"),
   SomeScope(<<"tenure", "tenure">>, "Churn"),
   SomeScope(<<"tenure", "Churn">>, "Churn"),
   SomeScope(<<"tenure", "gone">>, "Churn"),
   SomeScope(<<"tenure">>, "gone"),
   SomeScope(<<"tenure">>, " ")}

NoNameKey == NameKey("absent", "")

SplitDecision(test_size, random_state, shuffle, stratify, stratify_col, acc) ==
  [is_dict |-> TRUE, test_size |-> test_size, random_state |-> random_state,
   shuffle |-> shuffle, stratify |-> stratify, stratify_col |-> stratify_col,
   audit_categorical_cardinality |-> acc]

\* well-formed decisions, stratified on the target or not stratified
CoreDecisions ==
  {SplitDecision(ts, rs, PyBool(sh), PyBool(st),
                 IF st THEN NameKey("str", "Churn") ELSE NoNameKey, NoKey) :
     ts \in {PyFloat(1, 4), PyFloat(1, 2), PyInt(1), PyInt(2)},
     rs \in {PyInt(0), PyInt(1)}, sh \in BOOLEAN, st \in BOOLEAN}

OddScalars == {NoKey, PyNone, PyStr}

\* one key at a time takes a missing, mistyped or out-of-range value
OneKeyOff ==
  {SplitDecision(ts, PyInt(0), PyBool(TRUE), PyBool(FALSE), NoNameKey, NoKey) :
     ts \in OddScalars \cup {PyBool(TRUE), PyBool(FALSE), PyInt(0), PyInt(9),
                             PyFloat(0, 1), PyFloat(1, 1), PyFloat(3, 2)}}
  \cup
  {SplitDecision(PyFloat(1, 2), rs, PyBool(sh), PyBool(FALSE), NoNameKey, NoKey) :
     rs \in OddScalars \cup {PyBool(TRUE), PyBool(FALSE), PyFloat(1, 2)}, sh \in BOOLEAN}
  \cup
  {SplitDecision(PyFloat(1, 2), PyInt(0), sh, PyBool(FALSE), NoNameKey, NoKey) :
     sh \in OddScalars \cup {PyInt(1)}}
  \cup
  {SplitDecision(PyFloat(1, 2), PyInt(0), PyBool(TRUE), st, NoNameKey, NoKey) :
     st \in OddScalars \cup {PyInt(1)}}

\* stratify_col in every shape, with and without stratify
StratifyColDecisions ==
  {SplitDecision(PyFloat(1, 2), PyInt(0), PyBool(TRUE), PyBool(st), sc, NoKey) :
     st \in BOOLEAN,
     sc \in {NoNameKey, NameKey("none", ""), NameKey("other", ""), NameKey("str", "Churn"),
             NameKey("str", "tenure"), NameKey("str", " ")}}

AuditDecisions ==
  {SplitDecision(PyFloat(1, 2), PyInt(1), PyBool(TRUE), PyBool(st),
                 IF st THEN NameKey("str", "Churn") ELSE NoNameKey, acc) :
     st \in BOOLEAN, acc \in {PyBool(TRUE), PyBool(FALSE), PyStr, PyNone}}

SplitNotADict ==
  [is_dict |-> FALSE, test_size |-> NoKey, random_state |-> NoKey, shuffle |-> NoKey,
   stratify |-> NoKey, stratify_col |-> NoNameKey, audit_categorical_cardinality |-> NoKey]

SplitDecisions ==
  CoreDecisions \cup OneKeyOff \cup StratifyColDecisions \cup AuditDecisions
  \cup {SplitNotADict}

\* run_train_test_split(df, scope, decision)
SplitCall ==
  /\ Idle
  /\ \E df \in SplitTables, scope \in SplitScopes, decision \in SplitDecisions :
       LET r == RunTrainTestSplit(df, scope, decision, np_draws)
       IN /\ call' = [op |-> "split", df |-> df, scope |-> scope, decision |-> decision]
          /\ ret' = r.ret
          /\ np_draws' = r.draws
  /\ UNCHANGED <<prev, heap, _model, joblib_loads, app_started>>

\* the two decisions hold the same test_size, random_state, shuffle, stratify
SameSplitKeys(d1, d2) ==
  /\ d1.test_size = d2.test_size /\ d1.random_state = d2.random_state
  /\ d1.shuffle = d2.shuffle /\ d1.stratify = d2.stratify

\* the split is run a second time on the same table and scope, with a
\* decision that agrees with the first one on the four keys of the split
SplitAgain ==
  /\ call.op = "split" /\ prev.op = "none"
  /\ \E decision \in {d \in SplitDecisions : SameSplitKeys(d, call.decision)} :
       LET r == RunTrainTestSplit(call.df, call.scope, decision, np_draws)
       IN /\ call' = [call EXCEPT !.decision = decision]
          /\ ret' = r.ret
          /\ np_draws' = r.draws
  /\ prev' = [op |-> "split", call |-> call, ret |-> ret]
  /\ UNCHANGED <<heap, _model, joblib_loads, app_started>>

NextSplit == SplitCall \/ SplitAgain

SpecSplit == Init /\ [][NextSplit]_vars

\* --- what the split claims speak about ---------------------------------------

SplitDone == call.op = "split"

\* the rows of the table of the call
SplitRows == 1..CaptureStructuralSnapshot(call.df).n_rows

\* the decision was not refused by the validation of the decision
DecisionAccepted == ret.ok \/ ret.stage # "validate_decision"

\* --- C12 -----------------------------------------------------------------------

\* the conditions C12 lists for a decision
C12_Listed ==
  LET d == call.decision
  IN /\ d.is_dict
     /\ d.test_size.t # "absent" /\ d.random_state.t # "absent"
     /\ d.shuffle.t # "absent" /\ d.stratify.t # "absent"
     /\ \/ d.test_size.t = "float" /\ RatLess(<<0, 1>>, d.test_size.n)
                                   /\ RatLess(d.test_size.n, <<1, 1>>)
        \/ d.test_size.t = "int" /\ d.test_size.n[1] >= 1
     /\ d.random_state.t = "int"
     /\ d.shuffle.t = "bool" /\ d.stratify.t = "bool"
     /\ d.stratify = PyBool(TRUE) =>
          (d.stratify_col.t = "str" /\ d.stratify_col.name = call.scope.v.target)
     /\ d.stratify = PyBool(FALSE) => d.stratify_col.t = "absent"

\* C12: on a table that fits the scope, a decision that meets the listed
\* conditions (test_size a float in (0,1) or an int >= 1, random_state an
\* int, shuffle and stratify booleans, stratify_col equal to the target when
\* stratify is true and absent when it is false) passes the validation of the
\* decision, and with any other decision the call fails.
C12_DecisionAcceptedExactlyWhenListed ==
  (SplitDone /\ ValidateScope(call.df, call.scope).ok) =>
    /\ (C12_Listed /\ call.decision.audit_categorical_cardinality.t \in {"absent", "bool"})
         => DecisionAccepted
    /\ ~C12_Listed => ~ret.ok

\* --- C13 -----------------------------------------------------------------------

\* C13: after a successful split the rows of X_train and of X_test partition
\* the rows of the table (none twice, none in both, none lost), y_train and
\* y_test have the rows of X_train and X_test, and every cell of the four
\* parts is the cell of the table at that row.
C13_RowsPartitioned ==
  (SplitDone /\ ret.ok) =>
    LET sp == ret.split
        tr == sp.X_train.index
        te == sp.X_test.index
        target == Col(call.df, call.scope.v.target)
        FromTable(frame) ==
          \A j \in DOMAIN frame.columns : \A k \in DOMAIN frame.index :
            frame.columns[j].cells[k]
              = Col(call.df, frame.columns[j].name).cells[frame.index[k]]
    IN /\ NoDup(tr) /\ NoDup(te)
       /\ Range(tr) \cap Range(te) = {}
       /\ Range(tr) \cup Range(te) = SplitRows
       /\ Len(tr) + Len(te) = Cardinality(SplitRows)
       /\ sp.y_train.index = tr /\ sp.y_test.index = te
       /\ Len(sp.y_train.cells) = Len(tr) /\ Len(sp.y_test.cells) = Len(te)
       /\ \A k \in DOMAIN tr : sp.y_train.cells[k] = target.cells[tr[k]]
       /\ \A k \in DOMAIN te : sp.y_test.cells[k] = target.cells[te[k]]
       /\ FromTable(sp.X_train) /\ FromTable(sp.X_test)

\* four rows, two of each class, shuffled and stratified into two and two
C13_Witness ==
  /\ SplitDone /\ ret.ok
  /\ Cardinality(SplitRows) = 4
  /\ call.decision.shuffle = PyBool(TRUE) /\ call.decision.stratify = PyBool(TRUE)
  /\ Len(ret.split.X_train.index) = 2 /\ Len(ret.split.X_test.index) = 2
  /\ ret.split.X_train.index # <<1, 2>>
  /\ Range(ret.split.y_test.cells) = {StrCell(No), StrCell(Yes)}

\* --- C14 -----------------------------------------------------------------------

\* C14: when the split is run twice on the same table and scope with the same
\* test_size, random_state, shuffle and stratify, both runs that succeed put
\* the same rows, in the same order, in train and in test, whatever the other
\* keys of the two decisions are.
C14_SameSplitTwice ==
  (SplitDone /\ prev.op = "split" /\ ret.ok /\ prev.ret.ok) =>
    ret.split = prev.ret.split

\* a shuffled split run twice with decisions that differ outside the four keys
C14_Witness ==
  /\ SplitDone /\ prev.op = "split" /\ ret.ok /\ prev.ret.ok
  /\ call.decision # prev.call.decision
  /\ call.decision.shuffle = PyBool(TRUE)
  /\ Cardinality(SplitRows) = 4
  /\ ret.split.X_test.index # <<3, 4>>

\* --- C15 -----------------------------------------------------------------------

\* C15: after a successful split the target is not a column of X_train or
\* X_test, the columns of both are scope.features in the declared order, and
\* the risk checks say so: target_in_X_* false, columns_match_scope_* true.
C15_TargetOutOfX ==
  (SplitDone /\ ret.ok) =>
    LET sp == ret.split
        checks == ret.diagnostics.risk_checks.scope_integrity
        scope == call.scope.v
    IN /\ ~HasColumn(sp.X_train.columns, scope.target)
       /\ ~HasColumn(sp.X_test.columns, scope.target)
       /\ Columns(sp.X_train.columns) = scope.features
       /\ Columns(sp.X_test.columns) = scope.features
       /\ ~checks.target_in_X_train /\ ~checks.target_in_X_test
       /\ checks.columns_match_scope_train /\ checks.columns_match_scope_test

\* the features are declared in another order than the table holds them
C15_Witness ==
  /\ SplitDone /\ ret.ok
  /\ call.scope.v.features = <<"contract", "tenure">>
  /\ Columns(ret.split.X_train.columns) = <<"contract", "tenure">>
  /\ Len(ret.split.X_test.index) = 2
  /\ ~ret.diagnostics.risk_checks.scope_integrity.target_in_X_test

\* ============================================================================
\* Supervised representation (src/features/supervised_representation.py)
\* ============================================================================

\* a bool cell of a bool-dtype column
BoolCell(b) == [k |-> "bool", s |-> <<>>, n |-> <<IF b THEN 1 ELSE 0, 1>>]

RatSub(a, b) == Rat(a[1] * b[2] - b[1] * a[2], a[2] * b[2])

RatMul(a, b) == Rat(a[1] * b[1], a[2] * b[2])

\* the split argument: keys is the set of keys the mapping holds
SplitArg(X_train, X_test, y_train, y_test) ==
  [keys |-> {"X_train", "X_test", "y_train", "y_test"},
   X_train |-> X_train, X_test |-> X_test, y_train |-> y_train, y_test |-> y_test]

\* the state of one run: pc is the statement the run is at ("done" when it
\* has returned or raised), stage the helper that raised
ReprRun(ok, pc, error, stage, work) ==
  [ok |-> ok, pc |-> pc, error |-> error, stage |-> stage, work |-> work]

\* a transformed table: output column names and one row of values per label;
\* a value is (num / sqrt(scale2)), or NaN
ReprFrame(index, names, rows) == [index |-> index, names |-> names, rows |-> rows]

NoFrame == ReprFrame(<<>>, <<>>, <<>>)

OutValue(num, scale2) == [nan |-> FALSE, num |-> num, scale2 |-> scale2]

NaN == [nan |-> TRUE, num |-> <<0, 1>>, scale2 |-> <<1, 1>>]

UnpackSplit(split) ==
  IF {"X_train", "X_test", "y_train", "y_test"} \subseteq split.keys
  THEN Ok(split) ELSE ErrAt("ValueError", "unpack_split")

ValidateScopeAgainstSplit(X_train, X_test, y_train, y_test, scope) ==
  LET E == ErrAt("ValueError", "validate_scope_against_split")
  IN IF Columns(X_train.columns) # scope.features THEN E
     ELSE IF Columns(X_test.columns) # scope.features THEN E
     ELSE IF y_train.name # scope.target THEN E
     ELSE IF y_test.name # scope.target THEN E
     ELSE IF Len(X_train.index) # Len(y_train.index) THEN E
     ELSE IF Len(X_test.index) # Len(y_test.index) THEN E
     ELSE Ok(TRUE)

\* a target mapping: t is "absent", "dict" or "other"; keys and vals list the
\* items of the dict in insertion order
Mapping(t, keys, vals) == [t |-> t, keys |-> keys, vals |-> vals]

NoMapping == Mapping("absent", <<>>, <<>>)

\* the decision dict. keys: the top-level keys present; cat and num: whether
\* X.categorical and X.numeric are dicts; a string "absent" reads as None
ReprDecision(is_dict, keys, cat, cat_strategy, handle_unknown, num, num_strategy, y_strategy, y_dtype, mapping) ==
  [is_dict |-> is_dict, keys |-> keys, cat |-> cat, cat_strategy |-> cat_strategy,
   handle_unknown |-> handle_unknown, num |-> num, num_strategy |-> num_strategy,
   y_strategy |-> y_strategy, y_dtype |-> y_dtype, mapping |-> mapping]

RepresentationDecision(x_num_strategy, y_strategy, y_mapping, y_dtype) ==
  [x_cat_strategy |-> "onehot", x_cat_handle_unknown |-> "ignore",
   x_num_strategy |-> x_num_strategy, y_strategy |-> y_strategy,
   y_mapping |-> y_mapping, y_dtype |-> y_dtype]

ValidateAndNormalizeDecision(decision) ==
  LET T == ErrAt("TypeError", "validate_and_normalize_decision")
      V == ErrAt("ValueError", "validate_and_normalize_decision")
      mp == decision.mapping
      y_dtype == IF decision.y_dtype = "absent" THEN "int64" ELSE decision.y_dtype
  IN IF ~decision.is_dict THEN T
     ELSE IF ~({"X", "y"} \subseteq decision.keys) THEN V
     ELSE IF ~decision.cat THEN V
     ELSE IF decision.cat_strategy # "onehot" THEN V
     ELSE IF decision.handle_unknown # "ignore" THEN V
     ELSE IF ~decision.num THEN V
     ELSE IF decision.num_strategy \notin {"passthrough", "standard_scaler"} THEN V
     ELSE IF decision.y_strategy \notin {"map_binary", "passthrough"} THEN V
     ELSE IF decision.y_strategy = "map_binary"
          THEN IF mp.t # "dict" \/ Len(mp.keys) = 0 THEN V
               ELSE IF \E i \in DOMAIN mp.vals : ~IsInstanceInt(mp.vals[i]) THEN V
               ELSE Ok(RepresentationDecision(
                         decision.num_strategy, "map_binary",
                         Mapping("dict", mp.keys,
                                 [i \in DOMAIN mp.vals |-> PyInt(mp.vals[i].n[1])]),
                         y_dtype))
          ELSE Ok(RepresentationDecision(decision.num_strategy, "passthrough",
                                         NoMapping, y_dtype))

\* pandas.api.types.is_bool_dtype
IsBoolDtype(dtype) == dtype = "bool"

\* mutant: a bool column is taken as numeric
InferColumnRoles_BoolNumeric(X_train, scope) ==
  LET numeric(c) == IsNumericDtype(Col(X_train.columns, c).dtype)
      f == scope.features
  IN [categorical_cols |-> Filter(f, [c \in Range(f) |-> ~numeric(c)]),
      numeric_cols |-> Filter(f, [c \in Range(f) |-> numeric(c)])]

InferColumnRoles(X_train, scope) ==
  LET numeric(c) == LET dtype == Col(X_train.columns, c).dtype
                    IN IsNumericDtype(dtype) /\ ~IsBoolDtype(dtype)
      f == scope.features
  IN [categorical_cols |-> Filter(f, [c \in Range(f) |-> ~numeric(c)]),
      numeric_cols |-> Filter(f, [c \in Range(f) |-> numeric(c)])]

\* one entry of ColumnTransformer.transformers
Step(name, kind, cols) == [name |-> name, kind |-> kind, cols |-> cols]

\* a ColumnTransformer: its entries, whether fit has run, what fit learned
\* (one record per entry and column) and the calls it has received
ColumnTransformer(transformers) ==
  [transformers |-> transformers, fitted |-> FALSE, params |-> <<>>, calls |-> <<>>]

BuildXTransformer(categorical_cols, numeric_cols, decision) ==
  LET cat == IF categorical_cols # <<>>
             THEN <<Step("cat_onehot", "onehot", categorical_cols)>> ELSE <<>>
      num == IF numeric_cols = <<>> THEN <<>>
             ELSE IF decision.x_num_strategy = "passthrough"
                  THEN <<Step("num", "passthrough", numeric_cols)>>
                  ELSE <<Step("num_scaler", "scaler", numeric_cols)>>
      transformers == cat \o num
  IN IF transformers = <<>> THEN ErrAt("ValueError", "build_x_transformer")
     ELSE Ok(ColumnTransformer(transformers))

\* OneHotEncoder.categories_ of one column: the sorted distinct values, a
\* missing value last
Categories(cells) ==
  Unique(DropNa(cells)) \o (IF \E r \in DOMAIN cells : IsNa(cells[r]) THEN <<Null>> ELSE <<>>)

\* StandardScaler.var_ of one column (population variance, NaN left out)
Variance(cells) ==
  LET c == DropNa(cells)
      mu == Mean(c)
      sq == [i \in DOMAIN c |-> NumCell(RatMul(c[i].n, c[i].n))]
  IN RatSub(Mean(sq), RatMul(mu, mu))

\* what fit learns of one column
Learned(categories, mean, var) == [categories |-> categories, mean |-> mean, var |-> var]

FitColumn(kind, cells) ==
  IF kind = "onehot" THEN Learned(Categories(cells), <<0, 1>>, <<1, 1>>)
  ELSE IF kind = "scaler" THEN Learned(<<>>, Mean(DropNa(cells)), Variance(cells))
  ELSE Learned(<<>>, <<0, 1>>, <<1, 1>>)

\* ColumnTransformer.fit(X)
Fit(transformer, X) ==
  LET ts == transformer.transformers
  IN [transformer EXCEPT
        !.fitted = TRUE,
        !.params = [i \in DOMAIN ts |->
                      [j \in DOMAIN ts[i].cols |->
                         FitColumn(ts[i].kind, Col(X.columns, ts[i].cols[j]).cells)]],
        !.calls = Append(@, [op |-> "fit", X |-> X])]

\* the output values of one cell
TransformCell(kind, learned, cell) ==
  IF kind = "onehot"
  THEN [c \in DOMAIN learned.categories |->
          OutValue(IF learned.categories[c] = cell THEN <<1, 1>> ELSE <<0, 1>>, <<1, 1>>)]
  ELSE IF IsNa(cell) THEN <<NaN>>
  ELSE IF kind = "scaler"
       THEN LET d == RatSub(cell.n, learned.mean)
            IN <<OutValue(d, IF d[1] = 0 \/ learned.var[1] = 0 THEN <<1, 1>> ELSE learned.var)>>
       ELSE <<OutValue(cell.n, <<1, 1>>)>>

\* ColumnTransformer.get_feature_names_out(), verbose: <entry>__<column>, and
\* <entry>__<column>_<category> for a one-hot column
OutName(entry, column, category) == [entry |-> entry, column |-> column, category |-> category]

GetFeatureNamesOut(transformer) ==
  LET ts == transformer.transformers
      names(i, j) ==
        IF ts[i].kind = "onehot"
        THEN LET cats == transformer.params[i][j].categories
             IN [c \in DOMAIN cats |-> OutName(ts[i].name, ts[i].cols[j], cats[c])]
        ELSE <<OutName(ts[i].name, ts[i].cols[j], Null)>>
  IN Concat([i \in DOMAIN ts |-> Concat([j \in DOMAIN ts[i].cols |-> names(i, j)])])

\* ColumnTransformer.transform(X): the rows of the output array
Transform(transformer, X) ==
  LET ts == transformer.transformers
      out(i, j, r) == TransformCell(ts[i].kind, transformer.params[i][j],
                                    Col(X.columns, ts[i].cols[j]).cells[r])
  IN [r \in DOMAIN X.index |->
        Concat([i \in DOMAIN ts |-> Concat([j \in DOMAIN ts[i].cols |-> out(i, j, r)])])]

\* mutant: the transformer is fitted again on the table it transforms
TransformToDataframe_Refit(transformer, X) ==
  LET refit == Fit(transformer, X)
  IN [frame |-> ReprFrame(X.index, GetFeatureNamesOut(refit), Transform(refit, X)),
      transformer |-> [refit EXCEPT !.calls = Append(@, [op |-> "transform", X |-> X])]]

\* the table returned, and the transformer after the call
TransformToDataframe(transformer, X) ==
  [frame |-> ReprFrame(X.index, GetFeatureNamesOut(transformer), Transform(transformer, X)),
   transformer |-> [transformer EXCEPT !.calls = Append(@, [op |-> "transform", X |-> X])]]

\* pd.concat of two tables with the same columns
ConcatFrames(A, B) ==
  [index |-> A.index \o B.index,
   columns |-> [j \in DOMAIN A.columns |->
                  [A.columns[j] EXCEPT !.cells = @ \o Col(B.columns, A.columns[j].name).cells]]]

\* mutant: the transformer is fitted on train and test together
TransformerFit_WithTest(transformer, X_train, X_test) ==
  Fit(transformer, ConcatFrames(X_train, X_test))

\* transformer.fit(X_train) of run_supervised_representation
TransformerFit(transformer, X_train, X_test) == Fit(transformer, X_train)

\* dict lookup in a target mapping
MapLookup(mapping, cell) ==
  mapping.vals[CHOOSE i \in DOMAIN mapping.keys : mapping.keys[i] = cell]

\* Series.map(mapping).astype(dtype); int64 cannot hold a missing value
MapAndCast(y, mapping, dtype) ==
  LET cells == [r \in DOMAIN y.cells |->
                  IF IsIn(y.cells[r], mapping.keys)
                  THEN NumCell(MapLookup(mapping, y.cells[r]).n) ELSE Null]
  IN IF dtype = "int64" /\ \E r \in DOMAIN cells : IsNa(cells[r])
     THEN ErrAt("ValueError", "represent_target")
     ELSE Ok([y EXCEPT !.dtype = dtype, !.cells = cells])

\* mutant: the mapping is applied without the coverage check
RepresentTarget_NoCoverageCheck(y_train, y_test, decision) ==
  IF decision.y_strategy = "passthrough"
  THEN Ok([y_train |-> y_train, y_test |-> y_test, target_mapping |-> NoMapping])
  ELSE LET tr == MapAndCast(y_train, decision.y_mapping, decision.y_dtype)
           te == MapAndCast(y_test, decision.y_mapping, decision.y_dtype)
       IN IF ~tr.ok THEN tr ELSE IF ~te.ok THEN te
          ELSE Ok([y_train |-> tr.v, y_test |-> te.v, target_mapping |-> decision.y_mapping])

RepresentTarget(y_train, y_test, decision) ==
  IF decision.y_strategy = "passthrough"
  THEN Ok([y_train |-> y_train, y_test |-> y_test, target_mapping |-> NoMapping])
  ELSE LET mapping == decision.y_mapping
           seen == Range(DropNa(y_train.cells \o y_test.cells))
           missing_keys == {v \in seen : ~IsIn(v, mapping.keys)}
           tr == MapAndCast(y_train, mapping, decision.y_dtype)
           te == MapAndCast(y_test, mapping, decision.y_dtype)
       IN IF missing_keys # {} THEN ErrAt("ValueError", "represent_target")
          ELSE IF ~tr.ok THEN tr ELSE IF ~te.ok THEN te
          ELSE Ok([y_train |-> tr.v, y_test |-> te.v, target_mapping |-> mapping])

\* pd.isna(frame).sum().sum()
TotalNans(frame) ==
  SumSeq([r \in DOMAIN frame.rows |->
            Cardinality({c \in DOMAIN frame.rows[r] : frame.rows[r][c].nan})])

BuildDiagnostics(X_train, X_test, X_train_repr, X_test_repr, y_train, y_test, y_train_repr, y_test_repr, categorical_cols, numeric_cols) ==
  [column_roles |-> [categorical_cols |-> categorical_cols, numeric_cols |-> numeric_cols],
   shapes_before |-> [X_train |-> <<Len(X_train.index), Len(X_train.columns)>>,
                      X_test |-> <<Len(X_test.index), Len(X_test.columns)>>,
                      y_train |-> <<Len(y_train.cells)>>, y_test |-> <<Len(y_test.cells)>>],
   shapes_after |-> [X_train |-> <<Len(X_train_repr.index), Len(X_train_repr.names)>>,
                     X_test |-> <<Len(X_test_repr.index), Len(X_test_repr.names)>>,
                     y_train |-> <<Len(y_train_repr.cells)>>,
                     y_test |-> <<Len(y_test_repr.cells)>>],
   n_features_before |-> Len(X_train.columns),
   n_features_after |-> Len(X_train_repr.names),
   fit_on |-> "train_only",
   train_test_consistency |->
     [same_feature_count |-> Len(X_train_repr.names) = Len(X_test_repr.names),
      feature_names_match |-> X_train_repr.names = X_test_repr.names],
   x_missing_after |-> [train_total_nans |-> TotalNans(X_train_repr),
                        test_total_nans |-> TotalNans(X_test_repr)]]

\* what a run holds between its statements
ReprWork(dec, roles, transformer, fitted, X_train_repr, X_test_repr) ==
  [dec |-> dec, roles |-> roles, transformer |-> transformer, fitted |-> fitted,
   X_train_repr |-> X_train_repr, X_test_repr |-> X_test_repr]

NoWork ==
  ReprWork(RepresentationDecision("", "", NoMapping, ""),
           [categorical_cols |-> <<>>, numeric_cols |-> <<>>],
           ColumnTransformer(<<>>), <<>>, NoFrame, NoFrame)

\* run_supervised_representation up to the construction of the transformer
ReprStart(split, scope, decision) ==
  LET Raised(r) == ReprRun(FALSE, "done", r.error, r.stage, NoWork)
      unpacked == UnpackSplit(split)
      aligned == ValidateScopeAgainstSplit(split.X_train, split.X_test,
                                           split.y_train, split.y_test, scope)
      dec == ValidateAndNormalizeDecision(decision)
      roles == InferColumnRoles(split.X_train, scope)
      transformer == BuildXTransformer(roles.categorical_cols, roles.numeric_cols, dec.v)
  IN IF ~unpacked.ok THEN Raised(unpacked)
     ELSE IF ~aligned.ok THEN Raised(aligned)
     ELSE IF ~dec.ok THEN Raised(dec)
     ELSE IF ~transformer.ok THEN Raised(transformer)
     ELSE ReprRun(TRUE, "fit", "", "",
                  ReprWork(dec.v, roles, transformer.v, <<>>, NoFrame, NoFrame))

\* the rest of run_supervised_representation once X is transformed
ReprEnd(split, scope, decision, work) ==
  LET feature_names == work.X_train_repr.names
      target == RepresentTarget(split.y_train, split.y_test, work.dec)
      diagnostics ==
        BuildDiagnostics(split.X_train, split.X_test, work.X_train_repr,
                         work.X_test_repr, split.y_train, split.y_test,
                         target.v.y_train, target.v.y_test,
                         work.roles.categorical_cols, work.roles.numeric_cols)
  IN IF ~target.ok THEN ReprRun(FALSE, "done", target.error, target.stage, work)
     ELSE [ok |-> TRUE, pc |-> "done", error |-> "", stage |-> "", work |-> work,
           v |-> [scope |-> scope, decision |-> decision,
                  representation |->
                    [X_train |-> work.X_train_repr, X_test |-> work.X_test_repr,
                     y_train |-> target.v.y_train, y_test |-> target.v.y_test,
                     feature_names |-> feature_names,
                     transformer |-> work.transformer,
                     target_mapping |-> target.v.target_mapping],
                  diagnostics |-> diagnostics]]

\* --- inputs of the representation ---------------------------------------------

MaxReprRows == 2

Maybe == <<"o">>

\* a training table of n rows: tenure is integer, contract is text, flag is bool
TrainX(n, contract) ==
  [index |-> [r \in 1..n |-> r],
   columns |-> << [name |-> "tenure", dtype |-> "int64",
                   cells |-> [r \in 1..n |-> IntCell(r * r)]],
                  [name |-> "contract", dtype |-> "object", cells |-> contract],
                  [name |-> "flag", dtype |-> "bool",
                   cells |-> [r \in 1..n |-> BoolCell(r % 2 = 1)]] >>]

ReprTrainTables ==
  UNION {{TrainX(n, c) : c \in [1..n -> {StrCell(m), StrCell(u), Null}]} :
           n \in 1..MaxReprRows}

TestX(index, tenure, contract, flag) ==
  [index |-> index,
   columns |-> << [name |-> "tenure", dtype |-> "float64", cells |-> tenure],
                  [name |-> "contract", dtype |-> "object", cells |-> contract],
                  [name |-> "flag", dtype |-> "bool", cells |-> flag] >>]

\* test tables: a seen category, an unseen one, missing cells, two rows
ReprTestTables ==
  {TestX(<<7>>, <<IntCell(5)>>, <<StrCell(m)>>, <<BoolCell(TRUE)>>),
   TestX(<<7>>, <<IntCell(5)>>, <<StrCell(u)>>, <<BoolCell(FALSE)>>),
   TestX(<<7>>, <<IntCell(2)>>, <<StrCell(Maybe)>>, <<BoolCell(TRUE)>>),
   TestX(<<7>>, <<Null>>, <<StrCell(m)>>, <<BoolCell(TRUE)>>),
   TestX(<<7>>, <<IntCell(5)>>, <<Null>>, <<BoolCell(FALSE)>>),
   TestX(<<7, 8>>, <<IntCell(5), IntCell(1)>>, <<StrCell(m), StrCell(Maybe)>>,
         <<BoolCell(FALSE), BoolCell(FALSE)>>)}

\* X[features]
ProjectX(X, features) == [index |-> X.index, columns |-> Loc(X.columns, features)]

TargetSeries(index, cells) ==
  [name |-> "Churn", dtype |-> "object", index |-> index, cells |-> cells]

ReprFeatureLists ==
  {<<"tenure", "contract">>, <<"contract">>, <<"flag", "tenure">>, <<"tenure">>,
   <<"flag">>, <<>>}

NumStrategies == {"passthrough", "standard_scaler"}

FullMapping == Mapping("dict", <<StrCell(No), StrCell(Yes)>>, <<PyInt(0), PyInt(1)>>)

YesOnlyMapping == Mapping("dict", <<StrCell(Yes)>>, <<PyInt(1)>>)

BoolMapping == Mapping("dict", <<StrCell(No), StrCell(Yes)>>, <<PyBool(FALSE), PyBool(TRUE)>>)

\* a decision that holds every key
WholeDecision(num_strategy, y_strategy, y_dtype, mapping) ==
  ReprDecision(TRUE, {"X", "y"}, TRUE, "onehot", "ignore", TRUE, num_strategy,
               y_strategy, y_dtype, mapping)

XDecisions ==
  {WholeDecision(ns, "passthrough", "absent", NoMapping) : ns \in NumStrategies} \cup
  {WholeDecision(ns, "map_binary", "absent", FullMapping) : ns \in NumStrategies}

YDecisions ==
  {WholeDecision("passthrough", "map_binary", dt, mp) :
     dt \in {"absent", "int64", "float64"},
     mp \in {FullMapping, YesOnlyMapping, BoolMapping}} \cup
  {WholeDecision("passthrough", "passthrough", "absent", NoMapping)}

BaseDecision == WholeDecision("passthrough", "map_binary", "absent", FullMapping)

BadDecisions ==
  {[BaseDecision EXCEPT !.is_dict = FALSE],
   [BaseDecision EXCEPT !.keys = {"X"}],
   [BaseDecision EXCEPT !.cat = FALSE],
   [BaseDecision EXCEPT !.cat_strategy = "ordinal"],
   [BaseDecision EXCEPT !.handle_unknown = "error"],
   [BaseDecision EXCEPT !.num = FALSE],
   [BaseDecision EXCEPT !.num_strategy = "minmax"],
   [BaseDecision EXCEPT !.y_strategy = "label"],
   [BaseDecision EXCEPT !.mapping = NoMapping],
   [BaseDecision EXCEPT !.mapping = Mapping("other", <<>>, <<>>)],
   [BaseDecision EXCEPT !.mapping = Mapping("dict", <<>>, <<>>)],
   [BaseDecision EXCEPT !.mapping =
      Mapping("dict", <<StrCell(No), StrCell(Yes)>>, <<PyInt(0), PyFloat(1, 1)>>)]}

ReprCase(split, scope, decision) == [split |-> split, scope |-> scope, decision |-> decision]

AllCells(n, cell) == [r \in 1..n |-> cell]

\* the tables vary, the target is covered by the mapping
XCases ==
  {ReprCase(SplitArg(ProjectX(tr, f), ProjectX(te, f),
                     TargetSeries(tr.index, AllCells(Len(tr.index), StrCell(Yes))),
                     TargetSeries(te.index, AllCells(Len(te.index), StrCell(No)))),
            NormalizationScope(f, "Churn"), d) :
     tr \in ReprTrainTables, te \in ReprTestTables, f \in ReprFeatureLists, d \in XDecisions}

BaseTrain(n) == ProjectX(TrainX(n, AllCells(n, StrCell(m))), <<"tenure", "contract">>)

BaseTest ==
  ProjectX(TestX(<<7>>, <<IntCell(5)>>, <<StrCell(m)>>, <<BoolCell(TRUE)>>),
           <<"tenure", "contract">>)

BaseScope == NormalizationScope(<<"tenure", "contract">>, "Churn")

YValues == {StrCell(No), StrCell(Yes), Null}

\* the target varies
YCases ==
  UNION {{ReprCase(SplitArg(BaseTrain(n), BaseTest,
                            TargetSeries(BaseTrain(n).index, ytr),
                            TargetSeries(BaseTest.index, <<yte>>)),
                   BaseScope, d) :
            ytr \in [1..n -> YValues], yte \in YValues, d \in YDecisions} :
         n \in 1..MaxReprRows}

BaseSplit ==
  SplitArg(BaseTrain(1), BaseTest, TargetSeries(<<1>>, <<StrCell(Yes)>>),
           TargetSeries(<<7>>, <<StrCell(No)>>))

\* a malformed decision, or a split that does not fit the scope
BadCases ==
  {ReprCase(BaseSplit, BaseScope, d) : d \in BadDecisions} \cup
  {ReprCase(sp, BaseScope, BaseDecision) :
     sp \in {[BaseSplit EXCEPT !.keys = @ \ {"y_test"}],
             [BaseSplit EXCEPT !.X_test = ProjectX(@, <<"contract", "tenure">>)],
             [BaseSplit EXCEPT !.X_train = ProjectX(@, <<"tenure">>)],
             [BaseSplit EXCEPT !.y_train.name = "Exited"],
             [BaseSplit EXCEPT !.y_test = TargetSeries(<<7, 8>>, <<StrCell(No), StrCell(No)>>)]}}

ReprCases == XCases \cup YCases \cup BadCases

\* --- actions of the representation --------------------------------------------

ReprAt(pc) == call.op = "represent" /\ ret.pc = pc

ReprCall ==
  /\ Idle
  /\ \E c \in ReprCases :
       /\ call' = [op |-> "represent", split |-> c.split, scope |-> c.scope,
                   decision |-> c.decision]
       /\ ret' = ReprStart(c.split, c.scope, c.decision)
  /\ UNCHANGED <<prev, np_draws, heap, _model, joblib_loads, app_started>>

ReprFit ==
  /\ ReprAt("fit")
  /\ LET fitted == TransformerFit(ret.work.transformer, call.split.X_train, call.split.X_test)
     IN ret' = [ret EXCEPT !.pc = "transform_train",
                           !.work.transformer = fitted,
                           !.work.fitted = fitted.params]
  /\ UNCHANGED <<call, prev, np_draws, heap, _model, joblib_loads, app_started>>

ReprTransformTrain ==
  /\ ReprAt("transform_train")
  /\ LET r == TransformToDataframe(ret.work.transformer, call.split.X_train)
     IN ret' = [ret EXCEPT !.pc = "transform_test",
                           !.work.transformer = r.transformer,
                           !.work.X_train_repr = r.frame]
  /\ UNCHANGED <<call, prev, np_draws, heap, _model, joblib_loads, app_started>>

ReprTransformTest ==
  /\ ReprAt("transform_test")
  /\ LET r == TransformToDataframe(ret.work.transformer, call.split.X_test)
     IN ret' = [ret EXCEPT !.pc = "target",
                           !.work.transformer = r.transformer,
                           !.work.X_test_repr = r.frame]
  /\ UNCHANGED <<call, prev, np_draws, heap, _model, joblib_loads, app_started>>

ReprFinish ==
  /\ ReprAt("target")
  /\ ret' = ReprEnd(call.split, call.scope, call.decision, ret.work)
  /\ UNCHANGED <<call, prev, np_draws, heap, _model, joblib_loads, app_started>>

\* the representation is run a second time with the same X_train, y, scope and
\* decision and another X_test of the same columns
ReprAgain ==
  /\ ReprAt("done") /\ prev.op = "none"
  /\ \E te \in ReprTestTables :
       LET X_test == ProjectX(te, Columns(call.split.X_test.columns))
           split == [call.split EXCEPT !.X_test = X_test]
       IN /\ \A c \in Range(Columns(call.split.X_test.columns)) : HasColumn(te.columns, c)
          /\ X_test # call.split.X_test
          /\ Len(X_test.index) = Len(call.split.X_test.index)
          /\ call' = [call EXCEPT !.split = split]
          /\ ret' = ReprStart(split, call.scope, call.decision)
  /\ prev' = [op |-> "represent", call |-> call, ret |-> ret]
  /\ UNCHANGED <<np_draws, heap, _model, joblib_loads, app_started>>

NextRepresent ==
  \/ ReprCall \/ ReprFit \/ ReprTransformTrain \/ ReprTransformTest
  \/ ReprFinish \/ ReprAgain

SpecRepresent == Init /\ [][NextRepresent]_vars

\* --- C16 -----------------------------------------------------------------------

\* the calls the transformer of the current run has received, in order
ReprCalls == ret.work.transformer.calls

\* the run got as far as the target (it returned, or the target raised)
ReprTransformed ==
  ReprAt("target") \/ (ReprAt("done") /\ (ret.ok \/ ret.stage = "represent_target"))

\* C16: in every run of run_supervised_representation the transformer is
\* fitted exactly once, on X_train only, before X_train and X_test are
\* transformed: the only fit is the first call the transformer receives, its
\* argument is X_train and holds no row of X_test, and a run that reaches the
\* target has made exactly the calls fit(X_train), transform(X_train),
\* transform(X_test), in that order.
C16_FitOnceBeforeTransforms ==
  call.op = "represent" =>
    LET fits == {i \in DOMAIN ReprCalls : ReprCalls[i].op = "fit"}
    IN /\ \A i \in fits :
            /\ i = 1
            /\ ReprCalls[i].X = call.split.X_train
            /\ Range(ReprCalls[i].X.index) \cap Range(call.split.X_test.index) = {}
       /\ ReprCalls # <<>> => fits = {1}
       /\ ret.pc \in {"transform_train", "transform_test"} => fits = {1}
       /\ ReprTransformed =>
            ReprCalls = << [op |-> "fit", X |-> call.split.X_train],
                           [op |-> "transform", X |-> call.split.X_train],
                           [op |-> "transform", X |-> call.split.X_test] >>

\* a run that returned, whose test table holds a category the training table
\* does not
C16_Witness ==
  /\ ReprAt("done") /\ ret.ok
  /\ Len(ReprCalls) = 3
  /\ call.scope.features = <<"tenure", "contract">>
  /\ Col(call.split.X_test.columns, "contract").cells = <<StrCell(Maybe)>>
  /\ Len(call.split.X_train.index) = 2

\* --- C17 -----------------------------------------------------------------------

\* two runs with the same X_train, scope and decision, both past the transforms
TwoReprRuns ==
  /\ prev.op = "represent" /\ ReprTransformed
  /\ prev.call.split.X_train = call.split.X_train
  /\ prev.call.scope = call.scope /\ prev.call.decision = call.decision

\* C17: the fitted transformer depends on X_train only. Two runs with the same
\* X_train, scope and decision and different X_test (same columns) end with the
\* same fitted state, the same feature_names and the same transformed X_train;
\* and at every point of a run after the fit, the transformer holds the state
\* the fit left, so transforming X_test does not change it.
C17_FittedStateFromTrainOnly ==
  /\ (call.op = "represent" /\ ret.work.transformer.fitted) =>
       ret.work.transformer.params = ret.work.fitted
  /\ TwoReprRuns =>
       /\ prev.call.split.X_test # call.split.X_test
       /\ ret.work.transformer.params = prev.ret.work.transformer.params
       /\ ret.work.X_train_repr = prev.ret.work.X_train_repr
       /\ GetFeatureNamesOut(ret.work.transformer) =
            GetFeatureNamesOut(prev.ret.work.transformer)
       /\ ReprAt("done") => ret.ok = prev.ret.ok
       /\ (ReprAt("done") /\ ret.ok) =>
            /\ ret.v.representation.feature_names = prev.ret.v.representation.feature_names
            /\ ret.v.representation.X_train = prev.ret.v.representation.X_train
            /\ ret.v.representation.transformer.params =
                 prev.ret.v.representation.transformer.params

\* the second run scales tenure and meets a test table with an unseen category
\* where the first met a missing tenure; the transformed test tables differ
C17_Witness ==
  /\ TwoReprRuns /\ ReprAt("done") /\ ret.ok
  /\ call.decision.num_strategy = "standard_scaler"
  /\ call.scope.features = <<"tenure", "contract">>
  /\ Len(call.split.X_train.index) = 2
  /\ Col(call.split.X_test.columns, "contract").cells = <<StrCell(Maybe)>>
  /\ Col(prev.call.split.X_test.columns, "tenure").cells = <<Null>>
  /\ ret.v.representation.X_test # prev.ret.v.representation.X_test
  /\ ret.work.fitted[2][1].mean = <<5, 2>> /\ ret.work.fitted[2][1].var = <<9, 4>>

\* --- C18 -----------------------------------------------------------------------

\* the non-missing values of y_train and y_test that are no key of the mapping
UnmappedValues ==
  {v \in Range(DropNa(call.split.y_train.cells \o call.split.y_test.cells)) :
     ~IsIn(v, call.decision.mapping.keys)}

\* y_train or y_test holds a missing value
MissingInY ==
  \E v \in Range(call.split.y_train.cells \o call.split.y_test.cells) : IsNa(v)

RolesInferred == call.op = "represent" /\ ret.work.transformer.transformers # <<>>

DtypeOf(c) == Col(call.split.X_train.columns, c).dtype

\* the columns the one-hot entry of the transformer encodes
OneHotCols ==
  UNION {Range(ret.work.transformer.transformers[i].cols) :
           i \in {j \in DOMAIN ret.work.transformer.transformers :
                    ret.work.transformer.transformers[j].kind = "onehot"}}

\* C19 as stated: every feature of boolean or numeric dtype is numeric, every
\* other feature is categorical, and a boolean feature is never one-hot encoded.
C19_BoolAndNumericAreNumeric ==
  RolesInferred =>
    LET f == call.scope.features
        numeric == [c \in Range(f) |-> DtypeOf(c) \in {"bool", "int64", "float64"}]
    IN /\ ret.work.roles.numeric_cols = Filter(f, numeric)
       /\ ret.work.roles.categorical_cols = Filter(f, [c \in Range(f) |-> ~numeric[c]])
       /\ \A c \in OneHotCols : DtypeOf(c) # "bool"

\* C19, amended: a feature is numeric when its dtype is numeric and not
\* boolean; every other feature, a boolean one included, is categorical. The
\* categorical features are the ones the one-hot entry encodes, so a boolean
\* feature is always one-hot encoded; a run that returns reports these roles.
C19_BoolIsCategorical ==
  RolesInferred =>
    LET f == call.scope.features
        numeric == [c \in Range(f) |-> DtypeOf(c) \in {"int64", "float64"}]
    IN /\ ret.work.roles.numeric_cols = Filter(f, numeric)
       /\ ret.work.roles.categorical_cols = Filter(f, [c \in Range(f) |-> ~numeric[c]])
       /\ OneHotCols = {c \in Range(f) : ~numeric[c]}
       /\ \A c \in Range(f) : DtypeOf(c) = "bool" => c \in OneHotCols
       /\ (ReprAt("done") /\ ret.ok) =>
            /\ ret.v.diagnostics.column_roles = ret.work.roles
            /\ \A c \in Range(f) :
                 DtypeOf(c) = "bool" =>
                   \E i \in DOMAIN ret.v.representation.feature_names :
                     LET name == ret.v.representation.feature_names[i]
                     IN name.entry = "cat_onehot" /\ name.column = c
                        /\ name.category.k = "bool"

\* a boolean and an integer feature: flag gets one column per value seen in
\* training, tenure is passed through
C19_Witness ==
  /\ ReprAt("done") /\ ret.ok
  /\ call.scope.features = <<"flag", "tenure">>
  /\ Len(call.split.X_train.index) = 2
  /\ ret.v.diagnostics.column_roles.categorical_cols = <<"flag">>
  /\ ret.v.diagnostics.column_roles.numeric_cols = <<"tenure">>
  /\ ret.v.representation.feature_names =
       << OutName("cat_onehot", "flag", BoolCell(FALSE)),
          OutName("cat_onehot", "flag", BoolCell(TRUE)),
          OutName("num", "tenure", Null) >>

\* ============================================================================
\* Target audit (src/features/target_audit.py)
\* ============================================================================

\* the result of the audit. value_counts, missing_pct and the wording of the
\* messages are left out: an anomaly is kept as its kind, and casing holds the
\* groups the casing message lists (normalised text: the original texts)
TargetAuditResult(target, exists, n_rows, missing_count, nunique, unique_values_preview, anomalies, casing, status, notes) ==
  [target |-> target, exists |-> exists, n_rows |-> n_rows,
   missing_count |-> missing_count, nunique |-> nunique,
   unique_values_preview |-> unique_values_preview, anomalies |-> anomalies,
   casing |-> casing, status |-> status, notes |-> notes]

\* how the message of an anomaly starts
MessagePrefix(kind) ==
  CASE kind \in {"target_not_given", "unexpected_values"} -> "other"
    [] kind = "target_not_a_column" -> "Coluna target"
    [] OTHER -> "Target"

\* str(v).strip() is empty for some non-null value
EmptyLike(non_null) == {r \in DOMAIN non_null : Strip(StrOf(non_null[r])) = <<>>}

\* the normalised texts that more than one original text maps to, each with
\* its original texts (the message shows at most 3 groups of at most 4 texts)
CasingVariants(non_null) ==
  LET norm(x) == Lower(Strip(StrOf(x)))
      originals(k) == {StrOf(non_null[r]) : r \in {q \in DOMAIN non_null : norm(non_null[q]) = k}}
  IN {[norm |-> k, variants |-> originals(k)] :
        k \in {norm(non_null[r]) : r \in
                 {q \in DOMAIN non_null : Cardinality(originals(norm(non_null[q]))) > 1}}}

\* mutant: the distinct values are counted after normalisation
NUnique_Normalized(cells) ==
  Cardinality({Lower(Strip(StrOf(x))) : x \in Range(DropNa(cells))})

\* Series.nunique(dropna=True)
NUnique(cells) == Cardinality(Range(DropNa(cells)))

\* the status line of audit_target
AuditStatus(exists, anomalies) ==
  IF ~exists THEN "error"
  ELSE IF \E i \in DOMAIN anomalies : MessagePrefix(anomalies[i]) = "Coluna target"
       THEN "error"
  ELSE IF anomalies # <<>> THEN "warning"
  ELSE "ok"

\* mutant: the expected values are not compared with the observed ones
AuditTarget_ExpectedIgnored(df, target, expected_values, preview_unique) ==
  LET n_rows == CaptureStructuralSnapshot(df).n_rows
  IN IF target.t = "none" \/ BlankName(target.name)
     THEN TargetAuditResult(target.name, FALSE, n_rows, 0, 0, <<>>,
                            <<"target_not_given">>, {}, "error", "not_run")
     ELSE IF ~HasColumn(df, target.name)
     THEN TargetAuditResult(target.name, FALSE, n_rows, 0, 0, <<>>,
                            <<"target_not_a_column">>, {}, "error", "not_run")
     ELSE
       LET column == Col(df, target.name)
           missing_count == CountNa(column.cells)
           non_null == DropNa(column.cells)
           uniques == DedupePreserveOrder(non_null)
           nunique == NUnique(column.cells)
           anomalies ==
             (IF missing_count > 0 THEN <<"missing">> ELSE <<>>) \o
             (IF nunique = 0 THEN <<"no_values">>
              ELSE IF nunique = 1 THEN <<"single_value">>
              ELSE IF nunique > 2 THEN <<"many_values">> ELSE <<>>) \o
             (IF column.dtype = "object"
              THEN (IF EmptyLike(non_null) # {} THEN <<"empty_strings">> ELSE <<>>) \o
                   (IF CasingVariants(non_null) # {} THEN <<"casing_variants">> ELSE <<>>)
              ELSE <<>>)
           status == AuditStatus(TRUE, anomalies)
       IN TargetAuditResult(target.name, TRUE, n_rows, missing_count, nunique,
                            SubSeq(uniques, 1, IF preview_unique < nunique
                                               THEN preview_unique ELSE nunique),
                            anomalies,
                            IF column.dtype = "object" THEN CasingVariants(non_null) ELSE {},
                            status,
                            IF status = "ok" THEN "consistent" ELSE "review")

\* audit_target(df, target, expected_values=..., preview_unique=...); target is
\* None or a str, expected_values None or a list
AuditTarget(df, target, expected_values, preview_unique) ==
  LET n_rows == CaptureStructuralSnapshot(df).n_rows
  IN IF target.t = "none" \/ BlankName(target.name)
     THEN TargetAuditResult(target.name, FALSE, n_rows, 0, 0, <<>>,
                            <<"target_not_given">>, {}, "error", "not_run")
     ELSE IF ~HasColumn(df, target.name)
     THEN TargetAuditResult(target.name, FALSE, n_rows, 0, 0, <<>>,
                            <<"target_not_a_column">>, {}, "error", "not_run")
     ELSE
       LET column == Col(df, target.name)
           missing_count == CountNa(column.cells)
           non_null == DropNa(column.cells)
           uniques == DedupePreserveOrder(non_null)
           nunique == NUnique(column.cells)
           unexpected == IF expected_values.none THEN {}
                         ELSE {v \in Range(uniques) : ~IsIn(v, expected_values.v)}
           anomalies ==
             (IF missing_count > 0 THEN <<"missing">> ELSE <<>>) \o
             (IF nunique = 0 THEN <<"no_values">>
              ELSE IF nunique = 1 THEN <<"single_value">>
              ELSE IF nunique > 2 THEN <<"many_values">> ELSE <<>>) \o
             (IF column.dtype = "object"
              THEN (IF EmptyLike(non_null) # {} THEN <<"empty_strings">> ELSE <<>>) \o
                   (IF CasingVariants(non_null) # {} THEN <<"casing_variants">> ELSE <<>>)
              ELSE <<>>) \o
             (IF unexpected # {} THEN <<"unexpected_values">> ELSE <<>>)
           status == AuditStatus(TRUE, anomalies)
       IN TargetAuditResult(target.name, TRUE, n_rows, missing_count, nunique,
                            SubSeq(uniques, 1, IF preview_unique < nunique
                                               THEN preview_unique ELSE nunique),
                            anomalies,
                            IF column.dtype = "object" THEN CasingVariants(non_null) ELSE {},
                            status,
                            IF status = "ok" THEN "consistent" ELSE "review")

\* --- inputs of the audit --------------------------------------------------------

MaxAuditRows == 3

AuditCells == {StrCell(Yes), StrCell(No), StrCell(no), StrCell(<<" ">>), StrCell(m), Null}

\* a table of n rows: the text column Churn and the integer column Exited
AuditTable(n, churn) ==
  << [name |-> "Churn", dtype |-> "object", cells |-> churn],
     [name |-> "Exited", dtype |-> "int64", cells |-> [r \in 1..n |-> IntCell(r % 2)]] >>

\* a target with both spellings of Yes, a No and a missing value
MixedCasing == <<StrCell(Yes), StrCell(Lower(Yes)), StrCell(No), Null>>

AuditTables ==
  UNION {{AuditTable(n, churn) : churn \in [1..n -> AuditCells]} : n \in 0..MaxAuditRows}
  \cup {AuditTable(4, MixedCasing)}

AuditTargets ==
  {NameKey("none", "None"), NameKey("str", ""), NameKey("str", " "),
   NameKey("str", "Churn"), NameKey("str", "Exited"), NameKey("str", "churn")}

AuditExpected ==
  {[none |-> TRUE],
   [none |-> FALSE, v |-> <<StrCell(Yes), StrCell(No)>>],
   [none |-> FALSE, v |-> <<IntCell(0), IntCell(1)>>]}

AuditCall ==
  /\ Idle
  /\ \E df \in AuditTables, target \in AuditTargets, expected_values \in AuditExpected,
        preview_unique \in {1, 12} :
       /\ call' = [op |-> "audit", df |-> df, target |-> target,
                   expected_values |-> expected_values, preview_unique |-> preview_unique]
       /\ ret' = [ok |-> TRUE, v |-> AuditTarget(df, target, expected_values, preview_unique)]
  /\ UNCHANGED <<prev, np_draws, heap, _model, joblib_loads, app_started>>

NextAudit == AuditCall

SpecAudit == Init /\ [][NextAudit]_vars

\* --- C20 -----------------------------------------------------------------------

AuditDone == call.op = "audit"

\* the target is a str that is not blank and names a column of the table
TargetExists ==
  /\ call.target.t = "str" /\ call.target.name \notin {"", " "}
  /\ \E j \in DOMAIN call.df : call.df[j].name = call.target.name

TargetCells == (CHOOSE c \in Range(call.df) : c.name = call.target.name).cells

TargetValues == {x \in Range(TargetCells) : x.k # "null"}

\* one of the anomalies the audit looks for is in the target column
TargetAnomalous ==
  \/ \E x \in Range(TargetCells) : x.k = "null"
  \/ Cardinality(TargetValues) \in {0, 1} \/ Cardinality(TargetValues) > 2
  \/ \E x \in TargetValues : x.k = "str" /\ Strip(x.s) = <<>>
  \/ \E x, y \in TargetValues :
       x.k = "str" /\ y.k = "str" /\ x.s # y.s /\ Lower(Strip(x.s)) = Lower(Strip(y.s))
  \/ /\ ~call.expected_values.none
     /\ \E x \in TargetValues : x \notin Range(call.expected_values.v)

\* C20: audit_target returns status "error" exactly when the target is None,
\* blank or not a column of the table; "ok" exactly when the target exists and
\* the list of anomalies is empty; "warning" exactly when the target exists and
\* at least one anomaly was found: missing values, 0, 1 or more than 2 distinct
\* values, blank strings, casing/whitespace variants, or values outside
\* expected_values.
C20_AuditStatus ==
  AuditDone =>
    /\ ret.v.status \in {"ok", "warning", "error"}
    /\ ret.v.status = "error" <=> ~TargetExists
    /\ ret.v.status = "ok" <=> (TargetExists /\ ret.v.anomalies = <<>>)
    /\ ret.v.status = "warning" <=> (TargetExists /\ TargetAnomalous)
    /\ TargetExists => (ret.v.anomalies # <<>> <=> TargetAnomalous)
    /\ ret.v.exists = TargetExists

\* a two-valued target without missing cells whose only anomaly is a value
\* outside expected_values; and the same shape of table with nothing to report
C20_Witness ==
  /\ AuditDone /\ TargetExists
  /\ call.target.name = "Churn"
  /\ TargetCells = <<StrCell(Yes), StrCell(m), StrCell(Yes)>>
  /\ ~call.expected_values.none
  /\ ret.v.status = "warning"
  /\ ret.v.anomalies = <<"unexpected_values">>

\* --- C21 -----------------------------------------------------------------------

\* the audit of the column Yes, yes, No, null
MixedCasingAudited ==
  AuditDone /\ call.target = NameKey("str", "Churn") /\ TargetCells = MixedCasing

YesGroup == [norm |-> Lower(Yes), variants |-> {Yes, Lower(Yes)}]

\* C21 as stated: on the values Yes, yes, No and one null the audit reports
\* missing_count = 1, nunique = 2 and a casing anomaly that groups Yes and yes.
C21_TwoLogicalValues ==
  MixedCasingAudited =>
    /\ ret.v.missing_count = 1
    /\ ret.v.nunique = 2
    /\ IsIn("casing_variants", ret.v.anomalies) /\ YesGroup \in ret.v.casing

\* C21, amended: on the values Yes, yes, No and one null the audit reports
\* missing_count = 1, nunique = 3 (the values are counted as they are written)
\* and a casing anomaly that groups Yes and yes. In general missing_count is
\* the number of null cells and nunique the number of distinct non-null values
\* as written, so a casing variant counts as a value of its own.
C21_ThreeWrittenValues ==
  /\ MixedCasingAudited =>
       /\ ret.v.missing_count = 1
       /\ ret.v.nunique = 3
       /\ SubSeq(ret.v.anomalies, 1, 3) = <<"missing", "many_values", "casing_variants">>
       /\ call.expected_values.none => Len(ret.v.anomalies) = 3
       /\ ret.v.casing = {YesGroup}
  /\ (AuditDone /\ TargetExists) =>
       /\ ret.v.missing_count = Cardinality({r \in DOMAIN TargetCells : TargetCells[r].k = "null"})
       /\ ret.v.nunique = Cardinality(TargetValues)
       /\ \A g \in ret.v.casing : Cardinality(g.variants) > 1 /\ ret.v.nunique > 1

C21_Witness ==
  /\ MixedCasingAudited
  /\ ret.v.status = "warning" /\ ret.v.n_rows = 4
  /\ call.expected_values.none
  /\ ret.v.casing # {}

\* --- C22 -----------------------------------------------------------------------

\* run_missing_imputation on tenure = [1, 24, null] with the scope
\* features = [tenure, contract], target = Churn
TenureGapCall ==
  /\ call.op = "impute" /\ call.df = TenureGapTable
  /\ call.scope = SomeScope(<<"tenure", "contract">>, "Churn")

\* the decision {numeric_strategy: "median"} and no other key
MedianOnly ==
  Decision("median", AbsentKey, NoValue, NoValue, KeyAbsent, KeyAbsent, NoPerColumn)

MedianAndMostFrequent ==
  Decision("median", "most_frequent", NoValue, NoValue, KeyAbsent, KeyAbsent, NoPerColumn)

\* the run returned, with the null of tenure replaced by 12.5
TenureGapFilled ==
  /\ ret.ok
  /\ Col(ret.df, "tenure").cells = <<IntCell(1), IntCell(24), NumCell(<<25, 2>>)>>

\* C22 as stated: with the decision {numeric_strategy: "median"} alone the run
\* succeeds and replaces the null tenure cell by 12.5.
C22_MedianOnlyDecisionSucceeds ==
  (TenureGapCall /\ call.decision = MedianOnly) => TenureGapFilled

\* C22, amended: with the decision {numeric_strategy: "median"} alone the run
\* fails with a ValueError, since categorical_strategy is a required key; no
\* decision without categorical_strategy is run under a scope. With
\* categorical_strategy: "most_frequent" added the run succeeds, replaces the
\* null tenure cell by 12.5 and leaves contract as it was.
C22_MedianNeedsCategoricalStrategy ==
  /\ (TenureGapCall /\ call.decision = MedianOnly) => (~ret.ok /\ ret.error = "ValueError")
  /\ (ImputeWithScope /\ call.decision.categorical_strategy = AbsentKey) => ~ret.ok
  /\ (TenureGapCall /\ call.decision = MedianAndMostFrequent) =>
       /\ TenureGapFilled
       /\ Col(ret.df, "contract") = Col(call.df, "contract")
       /\ ret.meta.total_imputed_cells = 1

C22_Witness ==
  /\ TenureGapCall /\ call.decision = MedianAndMostFrequent
  /\ TenureGapFilled
  /\ ret.meta.executed

-----------------------------------------------------------------------------
(* The stages in sequence, with the identity of the tables they take and   *)
(* return                                                                  *)

\* an object of the heap: a DataFrame, the X or y of a split, or a
\* represented X or y
Obj(kind, v) == [kind |-> kind, v |-> v]

\* what a stage call leaves: the objects it returns that it allocated (new)
\* and the ones it was given and hands back (same)
Raised(error) == [ok |-> FALSE, error |-> error, new |-> <<>>, same |-> <<>>]

Returned(new, same) == [ok |-> TRUE, error |-> "", new |-> new, same |-> same]

\* enforce_contract_columns: df_out = df.loc[:, kept].copy()
EnforceObjects(h, a, contract_columns, strict) ==
  LET r == EnforceContractColumns(h[a].v, contract_columns, strict)
  IN IF ~r.ok THEN Raised(r.error)
     ELSE Returned(<<Obj("DataFrame", r.df)>>, <<>>)

\* apply_service_phrase_standardization writes to df_out = df.copy(deep=True)
StandardizeObjects(h, a, scope, phrase_map, cols_scope) ==
  LET r == RunCategoricalStandardization(h[a].v, scope, phrase_map, cols_scope)
  IN Returned(<<Obj("DataFrame", r.df)>>, <<>>)

\* run_missing_imputation: without a scope the payload holds df itself;
\* otherwise _apply_imputation fills df_after = df.copy(deep=True)
ImputePayload(a, scope, r) ==
  IF ~r.ok THEN Raised(r.error)
  ELSE IF scope.none THEN Returned(<<>>, <<a>>)
  ELSE Returned(<<Obj("DataFrame", r.df)>>, <<>>)

ImputeObjects(h, a, scope, decision) ==
  ImputePayload(a, scope, RunMissingImputation(h[a].v, scope, decision))

\* run_train_test_split: X and y are copies of df.loc[...], and
\* train_test_split returns new objects
SplitPayload(r) ==
  IF ~r.ret.ok THEN [run |-> Raised(r.ret.error), draws |-> r.draws]
  ELSE [run |-> Returned(<<Obj("X", r.ret.split.X_train), Obj("X", r.ret.split.X_test),
                           Obj("y", r.ret.split.y_train), Obj("y", r.ret.split.y_test)>>,
                         <<>>),
        draws |-> r.draws]

SplitObjects(h, a, scope, decision, draws) ==
  SplitPayload(RunTrainTestSplit(h[a].v, scope, decision, draws))

\* run_supervised_representation from its call to its return
ReprAfterTest(split, scope, decision, start, fitted, train, test) ==
  ReprEnd(split, scope, decision,
          ReprWork(start.work.dec, start.work.roles, test.transformer,
                   fitted.params, train.frame, test.frame))

ReprAfterTrain(split, scope, decision, start, fitted, train) ==
  ReprAfterTest(split, scope, decision, start, fitted, train,
                TransformToDataframe(train.transformer, split.X_test))

ReprAfterFit(split, scope, decision, start, fitted) ==
  ReprAfterTrain(split, scope, decision, start, fitted,
                 TransformToDataframe(fitted, split.X_train))

ReprAfterStart(split, scope, decision, start) ==
  IF ~start.ok THEN start
  ELSE ReprAfterFit(split, scope, decision, start,
                    TransformerFit(start.work.transformer, split.X_train, split.X_test))

RunSupervisedRepresentation(split, scope, decision) ==
  ReprAfterStart(split, scope, decision, ReprStart(split, scope, decision))

\* run_supervised_representation: _unpack_split copies the four tables, the
\* represented ones are built from the transformer's output
RepresentPayload(r) ==
  IF ~r.ok THEN Raised(r.error)
  ELSE Returned(<<Obj("X_repr", r.v.representation.X_train),
                  Obj("X_repr", r.v.representation.X_test),
                  Obj("y_repr", r.v.representation.y_train),
                  Obj("y_repr", r.v.representation.y_test)>>, <<>>)

RepresentObjects(h, ids, scope, decision) ==
  RepresentPayload(RunSupervisedRepresentation(
    SplitArg(h[ids[1]].v, h[ids[2]].v, h[ids[3]].v, h[ids[4]].v), scope, decision))

\* the caller writes into a table it holds: df[first column] = None
SetFirstColumnNone(df) ==
  [j \in DOMAIN df |->
     IF j = 1 THEN [df[j] EXCEPT !.cells = [r \in DOMAIN @ |-> Null]] ELSE df[j]]

Written(obj) ==
  IF obj.kind = "DataFrame" THEN Obj(obj.kind, SetFirstColumnNone(obj.v))
  ELSE Obj(obj.kind, [obj.v EXCEPT !.columns = SetFirstColumnNone(@)])

\* --- inputs of a pipeline run ---------------------------------------------------

\* the number of stage calls of a run
MaxCalls == 3

\* three rows; contract holds a service phrase, tenure may hold a null
PipeTable(last_tenure) ==
  <<[name |-> "tenure", dtype |-> "float64",
     cells |-> <<IntCell(1), IntCell(24), last_tenure>>],
    [name |-> "contract", dtype |-> "object",
     cells |-> <<StrCell(m), StrCell(ServicePhraseRaw), StrCell(m)>>],
    [name |-> "Churn", dtype |-> "object",
     cells |-> <<StrCell(Yes), StrCell(No), StrCell(Yes)>>]>>

PipeTables == {PipeTable(Null), PipeTable(IntCell(2))}

PipeScope == SomeScope(<<"tenure", "contract">>, "Churn")

NameList(names) == [list |-> TRUE, items |-> [i \in DOMAIN names |-> [str |-> TRUE, v |-> names[i]]]]

\* the contract as it is, and one with a column the table lacks (strict)
PipeContracts ==
  {[columns |-> NameList(<<"Churn", "tenure", "contract">>), strict |-> FALSE],
   [columns |-> NameList(<<"tenure", "plan", "Churn">>), strict |-> TRUE]}

PipeImputations ==
  {[scope |-> NoScope, decision |-> MedianAndMostFrequent],
   [scope |-> PipeScope, decision |-> MedianAndMostFrequent],
   [scope |-> PipeScope, decision |-> MedianOnly]}

PipeSplitDecisions ==
  {SplitDecision(PyFloat(1, 2), PyInt(0), PyBool(TRUE), PyBool(FALSE), NoNameKey, NoKey),
   SplitDecision(PyFloat(3, 2), PyInt(0), PyBool(TRUE), PyBool(FALSE), NoNameKey, NoKey)}

PipeReprDecisions == {BaseDecision, [BaseDecision EXCEPT !.keys = {"X"}]}

\* --- actions of a pipeline run ----------------------------------------------------

PipeRunning == call.op = "pipeline" /\ call.n < MaxCalls

DataFrames(h) == {a \in DOMAIN h : h[a].kind = "DataFrame"}

\* the ids of the objects a call returned
Outputs(h, run) == run.same \o [k \in DOMAIN run.new |-> Len(h) + k]

\* a stage was called on the objects `inputs` and left `run`
PipeStep(stage, inputs, run) ==
  /\ call' = [op |-> "pipeline", stage |-> stage, n |-> call.n + 1, inputs |-> inputs,
              before |-> [k \in DOMAIN inputs |-> heap[inputs[k]]]]
  /\ ret' = [ok |-> run.ok, error |-> run.error, outputs |-> Outputs(heap, run)]
  /\ heap' = heap \o run.new

\* the raw table is read from disk
PipeLoad ==
  /\ Idle
  /\ \E df \in PipeTables :
       /\ heap' = <<Obj("DataFrame", df)>>
       /\ call' = [op |-> "pipeline", stage |-> "load", n |-> 0, inputs |-> <<>>,
                   before |-> <<>>]
       /\ ret' = [ok |-> TRUE, error |-> "", outputs |-> <<1>>]
  /\ UNCHANGED <<prev, np_draws, _model, joblib_loads, app_started>>

PipeEnforce ==
  /\ PipeRunning
  /\ \E a \in DataFrames(heap), c \in PipeContracts :
       \E run \in {EnforceObjects(heap, a, c.columns, c.strict)} :
         PipeStep("enforce_contract_columns", <<a>>, run)
  /\ UNCHANGED <<prev, np_draws, _model, joblib_loads, app_started>>

PipeStandardize ==
  /\ PipeRunning
  /\ \E a \in DataFrames(heap), scope \in {NoScope, PipeScope} :
       \E run \in {StandardizeObjects(heap, a, scope, <<[from |-> ServicePhrase, to |-> no]>>,
                                      <<"contract">>)} :
         PipeStep("run_categorical_standardization", <<a>>, run)
  /\ UNCHANGED <<prev, np_draws, _model, joblib_loads, app_started>>

PipeImpute ==
  /\ PipeRunning
  /\ \E a \in DataFrames(heap), c \in PipeImputations :
       \E run \in {ImputeObjects(heap, a, c.scope, c.decision)} :
         PipeStep("run_missing_imputation", <<a>>, run)
  /\ UNCHANGED <<prev, np_draws, _model, joblib_loads, app_started>>

PipeSplit ==
  /\ PipeRunning
  /\ \E a \in DataFrames(heap), decision \in PipeSplitDecisions :
       \E r \in {SplitObjects(heap, a, PipeScope, decision, np_draws)} :
         /\ PipeStep("run_train_test_split", <<a>>, r.run)
         /\ np_draws' = r.draws
  /\ UNCHANGED <<prev, _model, joblib_loads, app_started>>

\* the representation takes the four tables the split before it returned
PipeRepresent ==
  /\ PipeRunning
  /\ call.stage = "run_train_test_split" /\ ret.ok
  /\ \E decision \in PipeReprDecisions :
       \E run \in {RepresentObjects(heap, ret.outputs, PipeScope.v, decision)} :
         PipeStep("run_supervised_representation", ret.outputs, run)
  /\ UNCHANGED <<prev, np_draws, _model, joblib_loads, app_started>>

\* later, the caller changes a table the last call returned
PipeWrite ==
  /\ call.op = "pipeline" /\ ret.ok
  /\ \E o \in Range(ret.outputs) :
       /\ heap[o].kind \in {"DataFrame", "X"}
       /\ heap' = [heap EXCEPT ![o] = Written(@)]
  /\ UNCHANGED <<call, ret, prev, np_draws, _model, joblib_loads, app_started>>

NextPipeline ==
  \/ PipeLoad \/ PipeEnforce \/ PipeStandardize \/ PipeImpute \/ PipeSplit
  \/ PipeRepresent \/ PipeWrite

SpecPipeline == Init /\ [][NextPipeline]_vars

\* --- C23 -----------------------------------------------------------------------

\* a stage was called in the pipeline run
StageCalled == call.op = "pipeline" /\ call.stage # "load"

\* the tables passed to the last call hold what they held before it
InputsKept == \A k \in DOMAIN call.inputs : heap[call.inputs[k]] = call.before[k]

\* no table the last call returned is one of the tables passed to it
OutputsNew == \A o \in Range(ret.outputs) : o \notin Range(call.inputs)

\* C23: after any sequence of stage calls, whether the last one returned or
\* raised, the tables passed to it hold what they held before the call, also
\* after the caller has changed the returned table, and the table it returned
\* is an object distinct from its input.
C23_InputsKeptOutputsNew ==
  StageCalled => (InputsKept /\ (ret.ok => OutputsNew))

-----------------------------------------------------------------------------
(* run_missing_imputation, statement by statement                         *)

\* the state of one run: pc is "fill" while the execution loop runs and "done"
\* when the run has returned or raised; executed counts the plans the loop
\* has executed
ImputeRun(ok, pc, error, scoped_cols, plans, executed, acc) ==
  [ok |-> ok, pc |-> pc, error |-> error, scoped_cols |-> scoped_cols, plans |-> plans,
   executed |-> executed, acc |-> acc]

\* lines 139-286: the early return without scope, the validation of the
\* decision, the copy and the plans
ImputeStart(df, scope, decision) ==
  LET Ended(ok, error) == ImputeRun(ok, "done", error, <<>>, <<>>, 0, Filled(df, <<>>, 0, 0))
      valid == ValidateDecision(decision)
      planned == PlanImputation(df, scope.v, decision)
  IN IF scope.none THEN Ended(TRUE, "")
     ELSE IF ~valid.ok THEN Ended(FALSE, valid.error)
     ELSE IF ~planned.ok THEN Ended(FALSE, planned.error)
     ELSE ImputeRun(TRUE, "fill", "", planned.v.scoped_cols, planned.v.plans, 0,
                    Filled(df, <<>>, 0, 0))

ImputeAt(pc) == call.op = "impute_steps" /\ ret.pc = pc

ImputeBegin ==
  /\ Idle
  /\ \E df \in ImputeTables, scope \in ImputeScopes, decision \in ImputeDecisions :
       /\ call' = [op |-> "impute_steps", df |-> df, scope |-> scope, decision |-> decision]
       /\ ret' = ImputeStart(df, scope, decision)
  /\ UNCHANGED <<prev, np_draws, heap, _model, joblib_loads, app_started>>

\* one turn of the execution loop: the fill value of the next plan is resolved
\* and its column filled, or the run raises
ImputeFillColumn ==
  /\ ImputeAt("fill") /\ ret.executed < Len(ret.plans)
  /\ LET step == FillStep(ret.plans[ret.executed + 1], ret.acc)
     IN ret' = IF step.ok
               THEN [ret EXCEPT !.executed = @ + 1, !.acc = step.v]
               ELSE [ret EXCEPT !.ok = FALSE, !.pc = "done", !.error = step.error]
  /\ UNCHANGED <<call, prev, np_draws, heap, _model, joblib_loads, app_started>>

ImputeReturn ==
  /\ ImputeAt("fill") /\ ret.executed = Len(ret.plans)
  /\ ret' = [ret EXCEPT !.pc = "done"]
  /\ UNCHANGED <<call, prev, np_draws, heap, _model, joblib_loads, app_started>>

NextImputeSteps == ImputeBegin \/ ImputeFillColumn \/ ImputeReturn

SpecImputeSteps == Init /\ [][NextImputeSteps]_vars

\* --- C24 -----------------------------------------------------------------------

SupportedStrategies == {"median", "mean", "most_frequent", "constant"}

\* the run raised
ImputeRaised == ImputeAt("done") /\ ~ret.ok

\* the plan at which the execution loop raised
FailedPlan == ret.plans[ret.executed + 1]

\* the run raised because of its decision: before the plans were complete, or
\* at a plan whose strategy is none of the supported ones, on a column that
\* holds a value ("Strategy nao suportada")
RaisedByDecision ==
  /\ ImputeRaised
  /\ \/ ret.plans = <<>>
     \/ /\ FailedPlan.strategy \notin SupportedStrategies
        /\ HasValue(Col(ret.acc.df, FailedPlan.column).cells)

\* C24: a failure caused by an absent, incomplete or invalid decision is raised
\* before any execution step: when run_missing_imputation raises because of its
\* decision, the execution loop has executed no plan and filled no cell.
C24_DecisionFailuresBeforeExecution ==
  RaisedByDecision => (ret.executed = 0 /\ ret.acc.total = 0)

\* --- C25 -----------------------------------------------------------------------

\* the run returned a table
ImputeReturned == call.op = "impute" /\ ret.ok

\* the columns the run may fill: the resolved universe, none without a scope
Fillable == IF call.scope.none THEN {} ELSE Universe

\* the cells of the input that the run may not change: the non-null ones, and
\* all those of a column outside the resolved universe
KeptCells ==
  UNION {{<<j, r>> : r \in {q \in DOMAIN call.df[j].cells :
                              \/ ~IsNa(call.df[j].cells[q])
                              \/ call.df[j].name \notin Fillable}} :
           j \in DOMAIN call.df}

\* C25: a successful run_missing_imputation changes only cells that were null
\* in a resolved column: every other cell holds the value it held in the input,
\* and the rows, the columns and their order are those of the input.
C25_OnlyNullCellsOfResolvedColumnsChange ==
  ImputeReturned =>
    /\ Columns(ret.df) = Columns(call.df)
    /\ \A j \in DOMAIN call.df : DOMAIN ret.df[j].cells = DOMAIN call.df[j].cells
    /\ \A c \in KeptCells : ret.df[c[1]].cells[c[2]] = call.df[c[1]].cells[c[2]]

\* a run filled the null of tenure and kept its other cells, and kept the null
\* of the target
C25_Witness ==
  /\ ImputeReturned /\ call.df = TenureGapTable
  /\ ret.meta.total_imputed_cells = 1
  /\ Col(ret.df, "tenure").cells[3] # Null
  /\ SubSeq(Col(ret.df, "tenure").cells, 1, 2) = <<IntCell(1), IntCell(24)>>
  /\ Col(ret.df, "Churn").cells[1] = Null
  /\ call.decision.numeric_strategy = "mean"

\* --- C26 -----------------------------------------------------------------------

\* run_missing_imputation was called without a scope
ImputeWithoutScope == call.op = "impute" /\ call.scope.none

\* C26: without a scope run_missing_imputation imputes nothing and never
\* fails, whatever the decision: it returns the table it was given, with
\* meta.executed false, a non-empty reason, total_imputed_cells 0 and an empty
\* changes audit.
C26_NoScopeNoImputation ==
  ImputeWithoutScope =>
    /\ ret.ok
    /\ ret.df = call.df
    /\ ~ret.meta.executed
    /\ ret.meta.reason # ""
    /\ ret.meta.total_imputed_cells = 0
    /\ ret.changes = <<>>

\* a call without scope and with a decision that is not even a dict, on a
\* table with a null in a feature
C26_Witness ==
  /\ ImputeWithoutScope /\ call.decision = NotADict
  /\ ~ValidateDecision(call.decision).ok
  /\ Len(Col(call.df, "tenure").cells) = 2 /\ Col(call.df, "tenure").cells[1] = Null
  /\ ret.ok /\ ret.df = call.df

\* --- C27 -----------------------------------------------------------------------

\* a run with y.strategy = map_binary returned
MappedTargetReturned ==
  ReprAt("done") /\ ret.ok /\ call.decision.y_strategy = "map_binary"

\* every cell of the represented series is the mapping's integer for the cell
\* of the input series in the same row
IsMappingOf(out, in) ==
  \A r \in DOMAIN in.cells :
    /\ IsIn(in.cells[r], call.decision.mapping.keys)
    /\ out.cells[r] = NumCell(MapLookup(call.decision.mapping, in.cells[r]).n)

\* C27: in every successful run with y.strategy = map_binary each element of
\* the returned y_train and y_test is the mapping's integer for the input
\* element, so the returned targets hold no null, also when the input y holds
\* a null and whatever y.dtype is declared.
C27_MappedTargetsHoldNoNull ==
  MappedTargetReturned =>
    /\ IsMappingOf(ret.v.representation.y_train, call.split.y_train)
    /\ IsMappingOf(ret.v.representation.y_test, call.split.y_test)
    /\ \A r \in DOMAIN ret.v.representation.y_train.cells :
         ~IsNa(ret.v.representation.y_train.cells[r])
    /\ \A r \in DOMAIN ret.v.representation.y_test.cells :
         ~IsNa(ret.v.representation.y_test.cells[r])

\* --- C28 -----------------------------------------------------------------------

\* the rows of column c whose cell in the returned table is not the cell of
\* the input table
DifferingRows(c) ==
  {r \in DOMAIN Col(call.df, c).cells : Col(ret.df, c).cells[r] # Col(call.df, c).cells[r]}

\* C28: in the standardizer's audit the cells_changed of each in-scope column
\* is the number of its cells that differ between the returned and the input
\* table (a cell altered by normalization alone included), and
\* meta.total_cells_changed is the sum of the per-column counts.
C28_CellsChangedCountsDifferences ==
  call.op = "standardize" =>
    /\ \A i \in DOMAIN ret.changes :
         ret.changes[i].cells_changed = Cardinality(DifferingRows(ret.changes[i].column))
    /\ ret.meta.total_cells_changed =
         SumSeq([i \in DOMAIN ret.changes |-> ret.changes[i].cells_changed])

-----------------------------------------------------------------------------
(* The inference service: model_loader.py                                  *)

None == [t |-> "None"]

\* a trained model as the service sees it: what its predict_proba returns
\* ("matrix": (n, 2), "vector": (n,), "scalar", "column": (n, 1)) or that it
\* raises, and the probability of the positive class
Estimator(id, proba, p) == [t |-> "estimator", id |-> id, proba |-> proba, p |-> p]

\* what joblib.load finds: nothing it can read, a dict, or another object
Unreadable == [t |-> "raises", has_model |-> FALSE, v |-> None]

DictArtifact(has_model, v) == [t |-> "dict", has_model |-> has_model, v |-> v]

ObjectArtifact(v) == [t |-> "object", has_model |-> FALSE, v |-> v]

\* a path is a pathlib.Path or a str
PathArg(t, name) == [t |-> t, name |-> name]

DEFAULT_MODEL_PATH == PathArg("Path", "artifacts/churn_model.joblib")

\* the outcome of a load_model call: what it returns or raises, the singleton
\* after it and whether the disk was read
Loaded(ok, v, error, model, read) ==
  [ok |-> ok, v |-> v, error |-> error, model |-> model, read |-> read]

\* mutant: the singleton is not consulted, every call reads the disk
LoadModel_AlwaysReads(model, model_path, artifact) ==
  IF artifact.t = "raises" \/ (artifact.t = "dict" /\ ~artifact.has_model)
  THEN Loaded(FALSE, None, "RuntimeError", model, TRUE)
  ELSE Loaded(TRUE, artifact.v, "", artifact.v, TRUE)

\* load_model(model_path) when the singleton holds `model` and the file holds
\* `artifact`; the handler's message calls model_path.resolve(), which a str
\* does not have
LoadModel(model, model_path, artifact) ==
  IF model # None THEN Loaded(TRUE, model, "", model, FALSE)
  ELSE IF artifact.t = "raises" \/ (artifact.t = "dict" /\ ~artifact.has_model)
       THEN Loaded(FALSE, None,
                   IF model_path.t = "Path" THEN "RuntimeError" ELSE "AttributeError",
                   model, TRUE)
  ELSE Loaded(TRUE, artifact.v, "", artifact.v, TRUE)

GetModel(model) ==
  IF model = None THEN [ok |-> FALSE, v |-> None, error |-> "RuntimeError"]
  ELSE [ok |-> TRUE, v |-> model, error |-> ""]

IsModelLoaded(model) == model # None

\* --- inputs of the loader -------------------------------------------------------

\* how many times the disk may be read
MaxLoads == 3

Half == <<1, 2>>

Estimators ==
  {Estimator("A", "matrix", <<9, 10>>), Estimator("B", "vector", <<499, 1000>>),
   Estimator("C", "scalar", Half), Estimator("D", "column", Half),
   Estimator("E", "raises", Half)}

Artifacts ==
  {Unreadable, DictArtifact(FALSE, None)}
  \cup {DictArtifact(TRUE, e) : e \in Estimators \cup {None}}
  \cup {ObjectArtifact(e) : e \in Estimators \cup {None}}

Paths ==
  {DEFAULT_MODEL_PATH, PathArg("Path", "other.joblib"), PathArg("str", "other.joblib")}

\* --- actions of the loader ------------------------------------------------------

LoadModelCall ==
  /\ joblib_loads < MaxLoads
  /\ \E model_path \in Paths, artifact \in Artifacts :
       LET r == LoadModel(_model, model_path, artifact)
       IN /\ call' = [op |-> "load_model", model_path |-> model_path, before |-> _model,
                      read |-> r.read]
          /\ ret' = [ok |-> r.ok, v |-> r.v, error |-> r.error]
          /\ _model' = r.model
          /\ joblib_loads' = joblib_loads + (IF r.read THEN 1 ELSE 0)
  /\ UNCHANGED <<prev, np_draws, heap, app_started>>

GetModelCall ==
  /\ call.op \in {"load_model", "is_model_loaded"}
  /\ call' = [op |-> "get_model", before |-> _model]
  /\ ret' = GetModel(_model)
  /\ UNCHANGED <<prev, np_draws, heap, _model, joblib_loads, app_started>>

IsModelLoadedCall ==
  /\ call.op \in {"load_model", "get_model"}
  /\ call' = [op |-> "is_model_loaded", before |-> _model]
  /\ ret' = [ok |-> TRUE, v |-> IsModelLoaded(_model), error |-> ""]
  /\ UNCHANGED <<prev, np_draws, heap, _model, joblib_loads, app_started>>

NextLoader == LoadModelCall \/ GetModelCall \/ IsModelLoadedCall

SpecLoader == Init /\ [][NextLoader]_vars

\* --- C29 -----------------------------------------------------------------------

LoaderCalled == call.op \in {"load_model", "get_model", "is_model_loaded"}

\* C29 as stated: once a load_model call has succeeded, the next load_model
\* call returns the same object without reading the disk.
C29_SuccessfulLoadIsFinal ==
  [][(call.op = "load_model" /\ ret.ok /\ call'.op = "load_model")
       => (~call'.read /\ ret'.ok /\ ret'.v = ret.v)]_vars

\* C29, amended: the singleton only moves from None to an object. Once a
\* load_model call has stored an object other than None, every later
\* load_model call, with any path, returns that object without reading the
\* disk; a load_model call that raises leaves the singleton None, and so does
\* one that reads None from the file (it returns None without raising, and the
\* next call reads the disk again); get_model raises exactly when the singleton
\* is None and otherwise returns it; no call resets the singleton.
C29_SingletonOnlyLoads ==
  /\ [](LoaderCalled =>
          /\ (call.before # None) => (_model = call.before)
          /\ (call.op = "load_model" /\ call.before # None) =>
               (ret.ok /\ ret.v = call.before /\ ~call.read)
          /\ (call.op = "load_model" /\ ~ret.ok) => (_model = None /\ call.read)
          /\ (call.op = "load_model" /\ ret.ok /\ ret.v = None) => _model = None
          /\ (call.op = "load_model" /\ ret.ok) => ret.v = _model
          /\ (call.op = "get_model") => (ret.ok <=> _model # None)
          /\ (call.op = "get_model" /\ ret.ok) => ret.v = _model)
  /\ [][(_model # None => _model' = _model)
        /\ (joblib_loads' # joblib_loads => _model = None)]_vars

\* a second load_model call, with another path, after the model was loaded
C29_Witness ==
  /\ call.op = "load_model" /\ call.before # None
  /\ call.model_path # DEFAULT_MODEL_PATH
  /\ ret.ok /\ ret.v = call.before /\ ~call.read
  /\ joblib_loads = 1

-----------------------------------------------------------------------------
(* The inference service: main.py and predictor.py                         *)

\* the keys of COLUMN_MAP (preprocess.py)
COLUMN_MAP ==
  {"tenure", "contract", "internet_service", "online_security", "tech_support",
   "monthly_charges", "paperless_billing", "payment_method"}

\* preprocess_input: a key outside COLUMN_MAP raises ValueError
PreprocessInput(input_dict) ==
  IF \E k \in input_dict.keys : k \notin COLUMN_MAP THEN Err("ValueError")
  ELSE Ok([columns |-> input_dict.keys, tenure |-> input_dict.tenure])

\* _extract_positive_proba: predict_proba may raise; a scalar, an (n, 2)
\* matrix and an (n,) vector give the probability, any other shape raises
ExtractPositiveProba(model, X) ==
  IF model.proba = "raises" THEN Err("RuntimeError")
  ELSE IF model.proba \in {"scalar", "matrix", "vector"} THEN Ok(model.p)
  ELSE Err("ValueError")

\* predict_churn after get_model: the label from the raw probability, the
\* probability rounded to two decimals
Prediction(proba_raw) ==
  [previsao |-> IF ~RatLess(proba_raw, Half) THEN "Vai cancelar" ELSE "Vai continuar",
   probabilidade |-> RoundRat(proba_raw, 2)]

\* mutant: the handler does not look at the singleton before predicting
ModelCheck_Skipped(model) == [ok |-> TRUE, status |-> 200, detail |-> ""]

\* predict, main.py: the guard on is_model_loaded()
ModelCheck(model) ==
  IF ~IsModelLoaded(model)
  THEN [ok |-> FALSE, status |-> 500, detail |-> "Model not loaded."]
  ELSE [ok |-> TRUE, status |-> 200, detail |-> ""]

\* predict, main.py: ValueError becomes 400, any other exception 500
StatusOfException(error) == IF error = "ValueError" THEN 400 ELSE 500

\* a request in the handler: pc is the statement it is at, steps are the parts
\* of predict_churn that have run, raised the exception predict_churn raised
Handling(pc, status, detail, body, steps, raised) ==
  [pc |-> pc, status |-> status, detail |-> detail, body |-> body, steps |-> steps,
   raised |-> raised]

NoBody == [previsao |-> "", probabilidade |-> <<0, 1>>]

\* the handler answers an exception of predict_churn
Failed(run, error) ==
  Handling("done", StatusOfException(error),
           IF error = "ValueError" THEN "ValueError" ELSE "Prediction failed",
           NoBody, run.steps, error)

\* --- inputs of the service ---------------------------------------------------------

\* validated requests: the eight fields of PredictRequest, no other
Payloads == {[keys |-> COLUMN_MAP, tenure |-> t] : t \in {0, 1, 24, 72}}

\* --- actions of the service --------------------------------------------------------

\* startup_event: load_model() in a try that swallows every exception
StartupEvent ==
  /\ ~app_started /\ Idle
  /\ \E artifact \in Artifacts :
       LET r == LoadModel(_model, DEFAULT_MODEL_PATH, artifact)
       IN /\ _model' = r.model
          /\ joblib_loads' = joblib_loads + (IF r.read THEN 1 ELSE 0)
          /\ call' = [op |-> "startup"]
          /\ ret' = Handling("done", 0, "", NoBody, <<>>, "")
          /\ prev' = [op |-> "startup", failed |-> ~r.ok]
  /\ app_started' = TRUE
  /\ UNCHANGED <<np_draws, heap>>

\* no request is being handled
Serving == app_started /\ ret.pc = "done"

\* POST /predict arrives
PredictReceived ==
  /\ Serving
  /\ \E payload \in Payloads :
       call' = [op |-> "predict", payload |-> payload]
  /\ ret' = Handling("model_check", 0, "", NoBody, <<>>, "")
  /\ UNCHANGED <<prev, np_draws, heap, _model, joblib_loads, app_started>>

ServiceAt(pc) == call.op = "predict" /\ ret.pc = pc

PredictModelCheck ==
  /\ ServiceAt("model_check")
  /\ LET guard == ModelCheck(_model)
     IN ret' = IF guard.ok THEN [ret EXCEPT !.pc = "preprocess"]
               ELSE Handling("done", guard.status, guard.detail, NoBody, ret.steps, "")
  /\ UNCHANGED <<call, prev, np_draws, heap, _model, joblib_loads, app_started>>

PredictPreprocess ==
  /\ ServiceAt("preprocess")
  /\ LET X == PreprocessInput(call.payload)
         run == [ret EXCEPT !.steps = Append(@, "preprocess_input")]
     IN ret' = IF X.ok THEN [run EXCEPT !.pc = "get_model"] ELSE Failed(run, X.error)
  /\ UNCHANGED <<call, prev, np_draws, heap, _model, joblib_loads, app_started>>

PredictGetModel ==
  /\ ServiceAt("get_model")
  /\ LET model == GetModel(_model)
     IN ret' = IF model.ok THEN [ret EXCEPT !.pc = "inference"] ELSE Failed(ret, model.error)
  /\ UNCHANGED <<call, prev, np_draws, heap, _model, joblib_loads, app_started>>

PredictInference ==
  /\ ServiceAt("inference")
  /\ LET proba_raw == ExtractPositiveProba(_model, PreprocessInput(call.payload).v)
         run == [ret EXCEPT !.steps = Append(@, "predict_proba")]
     IN ret' = IF proba_raw.ok
               THEN Handling("done", 200, "", Prediction(proba_raw.v), run.steps, "")
               ELSE Failed(run, proba_raw.error)
  /\ UNCHANGED <<call, prev, np_draws, heap, _model, joblib_loads, app_started>>

\* GET /health
HealthRequest ==
  /\ Serving
  /\ call' = [op |-> "health"]
  /\ ret' = Handling("done", 200, "", [status |-> "ok", model_loaded |-> IsModelLoaded(_model)],
                     <<>>, "")
  /\ UNCHANGED <<prev, np_draws, heap, _model, joblib_loads, app_started>>

NextService ==
  \/ StartupEvent \/ PredictReceived \/ PredictModelCheck \/ PredictPreprocess
  \/ PredictGetModel \/ PredictInference \/ HealthRequest

SpecService == Init /\ [][NextService]_vars

\* --- C30 -----------------------------------------------------------------------

\* a /predict request was answered
Answered == ServiceAt("done")

====
